---- MODULE Spec2Model ----
(***************************************************************************)
(* ChatOS trading dashboard: the realtime trade feed view (TradeFeed), the *)
(* aggregated analytics endpoint (getAggrStats) and the canvas chart       *)
(* render pass (TradingChart), as state machines.                          *)
(*                                                                         *)
(* Prices and notionals are integers.  A JavaScript number that is the     *)
(* result of a division is kept as an exact fraction [n, d]; a division by *)
(* zero gives the IEEE values NaN, +Infinity, -Infinity.                   *)
(***************************************************************************)
EXTENDS Integers, Sequences, FiniteSets, TLC

VARIABLES
    realtime,       \* what useRealtime() returns: connected, trades, liquidations, whaleTrades, stats, subscribed
    props,          \* the mounted TradeFeed's props: symbol, showWhalesOnly, showLiquidations, maxItems
    tape,           \* history: every feed event processed so far, oldest first
    session,        \* history: "first" connection, "lost", "reopened" after a loss, "resumed" once a message followed
    aggrDir,        \* AGGR_DATA_DIR on disk: whether it exists, and its files in readdir order
    aggrResponse,   \* the GET /api/aggr?action=stats response on its way to the caller: <<>> or <<body>>
    chartCandles,   \* TradingChart: the candles useMarketData returned, oldest first
    showIchimoku,   \* TradingChart: the indicator toggle
    dimensions,     \* TradingChart: the container's size as the ResizeObserver reported it
    positions,      \* useTradingStore().positions
    realtimePrice,  \* getPrice(symbol)?.price: null or a price
    ticker,         \* useMarketData's ticker?.last: null or a price
    ichimokuData,   \* useMemo: the indicator records, [] when not computed
    futureCloud,    \* useMemo: the projected cloud, [] when not computed
    ichimokuSignal, \* useMemo: null or the signal
    canvas,         \* what the last completed draw effect left on the canvas
    conditions,     \* signal analyzer: the vote of each of its four conditions
    signal,         \* signal analyzer: null until it ran, then the signal it derived
    panel,          \* the polling component mounted: "orderbook", "prices", "ticker" or "none"
    panelSymbol,    \* its symbol prop (OrderBook) or the store's currentSymbol (CenterPanel)
    panelData,      \* its data state: null, or the order book, price map or ticker it holds
    panelError,     \* its error state: null or a message
    panelLoading,   \* its loading state
    inFlight,       \* the fetches issued and not answered yet: {[id, symbol]}
    issued,         \* history: the number of fetches issued so far
    lastResponse,   \* history: null, or the answer handled last with the data held before it
    trainingDir,    \* TRAINING_DATA_DIR on disk
    aggrReply,      \* the GET /api/aggr response of any action: null or [action, stat, response]
    hasWindow,      \* chat-integration.ts runs in a browser (window is defined) or on the server
    storage,        \* sessionStorage.getItem('pending_chat_message'): null or the string
    chatLog,        \* history: the calls of the three functions so far, with what they returned
    procs,          \* the PIDs of the market_scraper.py processes running
    pidFile,        \* scraper.pid: null (no file) or the PID written in it
    shells,         \* the invocations of the scraper script: command, position and its PID variable
    spawned,        \* history: the number of scrapers the script has started
    scraperLog,     \* history: spawns next to a running scraper, and the command that finished last
    store,          \* useTradingStore: accounts, currentAccountId, mode, positions, journal
    clock,          \* Date.now()
    connecting,     \* the connectExchange calls waiting for their timeout: a bag of exchanges
    storeLog,       \* history: null, or the store call made last with the state before it
    messages,       \* TradingAssistant: the messages state
    closure,        \* the messages and mode of the render whose handlers the buttons call
    sending,        \* the handleSend calls waiting for their timeout: input and time of the call
    assistantLog,   \* history: the clicks handled, and the state before the last one
    poller,         \* a polling component: its props, refs and the cleanup of its effect
    timers,         \* the interval timers that are active, and (history) how many were made
    stream          \* streamChatMessage: where the generator is, its buffer, the events it
                    \* yielded, and (history) the text it received

feedVars == <<realtime, props, tape, session>>
aggrVars == <<aggrDir, aggrResponse>>
chartVars == <<chartCandles, showIchimoku, dimensions, positions, realtimePrice, ticker,
               ichimokuData, futureCloud, ichimokuSignal, canvas>>
signalVars == <<conditions, signal>>
panelVars == <<panel, panelSymbol, panelData, panelError, panelLoading, inFlight, issued,
               lastResponse>>
endpointVars == <<trainingDir, aggrReply>>
chatVars == <<hasWindow, storage, chatLog>>
scraperVars == <<procs, pidFile, shells, spawned, scraperLog>>
storeVars == <<store, clock, connecting, storeLog>>
assistantVars == <<messages, closure, sending, assistantLog>>
streamVars == <<stream>>
pollerVars == <<poller, timers>>
vars == <<feedVars, aggrVars, chartVars, signalVars, panelVars, endpointVars, chatVars, scraperVars, storeVars, assistantVars, streamVars, pollerVars>>

\* what the actions of one component leave alone
notFeed == <<aggrVars, chartVars, signalVars, panelVars, endpointVars, chatVars, scraperVars, storeVars, assistantVars, streamVars, pollerVars>>
notAggr == <<feedVars, chartVars, signalVars, panelVars, endpointVars, chatVars, scraperVars, storeVars, assistantVars, streamVars, pollerVars>>
notChart == <<feedVars, aggrVars, signalVars, panelVars, endpointVars, chatVars, scraperVars, storeVars, assistantVars, streamVars, pollerVars>>
notSignal == <<feedVars, aggrVars, chartVars, panelVars, endpointVars, chatVars, scraperVars, storeVars, assistantVars, streamVars, pollerVars>>
notPanel == <<feedVars, aggrVars, chartVars, signalVars, endpointVars, chatVars, scraperVars, storeVars, assistantVars, streamVars, pollerVars>>
notEndpoint == <<feedVars, aggrResponse, chartVars, signalVars, panelVars, chatVars, scraperVars, storeVars, assistantVars, streamVars, pollerVars>>
notChat == <<feedVars, aggrVars, chartVars, signalVars, panelVars, endpointVars, scraperVars, storeVars, assistantVars, streamVars, pollerVars>>
notScraper == <<feedVars, aggrVars, chartVars, signalVars, panelVars, endpointVars, chatVars, storeVars, assistantVars, streamVars, pollerVars>>
notStore == <<feedVars, aggrVars, chartVars, signalVars, panelVars, endpointVars, chatVars, scraperVars, assistantVars, streamVars, pollerVars>>
notAssistant == <<feedVars, aggrVars, chartVars, signalVars, panelVars, endpointVars, chatVars, scraperVars, connecting, storeLog, streamVars, pollerVars>>
notStream == <<feedVars, aggrVars, chartVars, signalVars, panelVars, endpointVars, chatVars, scraperVars, storeVars, assistantVars, pollerVars>>
notPoller == <<feedVars, aggrVars, chartVars, signalVars, panelVars, endpointVars, chatVars, scraperVars, assistantVars, streamVars>>


\* the data directory before the scraper created it
NoDir == [exists |-> FALSE, files |-> <<>>]

\* an absent (undefined) or empty symbol: both are falsy
NoSymbol == <<>>

\* a nullable number is <<>> (null) or <<v>>
Null == <<>>
Some(v) == <<v>>

\* a canvas element nothing was drawn on yet
blankCanvas == [painted |-> FALSE]

\* no TradingChart is mounted
ChartUnmounted ==
    /\ chartCandles = <<>>
    /\ showIchimoku = TRUE
    /\ dimensions = [width |-> 800, height |-> 400]
    /\ positions = <<>>
    /\ realtimePrice = Null
    /\ ticker = Null
    /\ ichimokuData = <<>>
    /\ futureCloud = <<>>
    /\ ichimokuSignal = Null
    /\ canvas = blankCanvas

\* the data directory is untouched and no request is in flight
AggrIdle ==
    /\ aggrDir = NoDir
    /\ aggrResponse = <<>>

\* no request of the endpoint's other actions was made
EndpointIdle ==
    /\ trainingDir = NoDir
    /\ aggrReply = Null

\* no page has used the pending chat message
ChatIdle ==
    /\ hasWindow = TRUE
    /\ storage = Null
    /\ chatLog = <<>>

\* concurrent invocations of the scraper script
MaxShells == 2

\* the script was never invoked
ScraperIdle ==
    /\ procs = {}
    /\ pidFile = Null
    /\ shells = [id \in 1..MaxShells |-> [cmd |-> "none", pc |-> "done", pid |-> Null]]
    /\ spawned = 0
    /\ scraperLog = [spawnedBesideRunning |-> FALSE, finished |-> "none"]

\* the trading store as create() leaves it: lines 594-616
initialStore ==
    [accounts |-> <<>>, currentAccountId |-> Null, mode |-> "paper", positions |-> <<>>,
     journal |-> <<>>]

\* no action of the trading store was called
StoreIdle ==
    /\ store = initialStore
    /\ clock = 1
    /\ connecting = <<>>
    /\ storeLog = Null

\* the assistant is not mounted
AssistantIdle ==
    /\ messages = <<>>
    /\ closure = [messages |-> <<>>, mode |-> "paper"]
    /\ sending = <<>>
    /\ assistantLog = [clicks |-> <<>>, last |-> Null]

\* streamChatMessage was not called
StreamIdle ==
    stream = [at |-> "idle", buffer |-> <<>>, events |-> <<>>, received |-> <<>>, reads |-> 0]

\* no polling component was mounted
PollerIdle ==
    /\ poller = [kind |-> "none", mounted |-> FALSE, symbol |-> "", autoRefresh |-> TRUE,
                 refreshInterval |-> 0, intervalRef |-> Null, cleanup |-> Null,
                 fetches |-> 0, recreated |-> 0]
    /\ timers = [active |-> {}, made |-> 0, overlapped |-> FALSE]

\* the analyzer was not asked for anything
SignalIdle ==
    /\ conditions = [cloud |-> 0, cross |-> 0, color |-> 0, chikou |-> 0]
    /\ signal = Null

\* no polling component is mounted
PanelIdle ==
    /\ panel = "none"
    /\ panelSymbol = <<>>
    /\ panelData = Null
    /\ panelError = Null
    /\ panelLoading = TRUE
    /\ inFlight = {}
    /\ issued = 0
    /\ lastResponse = Null

(***************************************************************************)
(* Bounds of the model.                                                    *)
(***************************************************************************)
\* feed events delivered after the initial state
MaxEvents == 3
\* lines appended to the latest large_trades file
MaxLines == 3
\* files in the data directory
MaxFiles == 2
\* events of earlier traffic in a long-running feed
ScriptLength == 160

(***************************************************************************)
(* Sequences and strings.  A string is a sequence of one-character strings.*)
(***************************************************************************)
RECURSIVE SumRange(_, _, _)
SumRange(s, lo, hi) ==
    IF lo > hi THEN 0
    ELSE IF lo = hi THEN s[lo]
    ELSE LET mid == (lo + hi) \div 2 IN SumRange(s, lo, mid) + SumRange(s, mid + 1, hi)

SumSeq(s) == SumRange(s, 1, Len(s))

\* Array.prototype.slice(0, n)
slice0(s, n) == SubSeq(s, 1, IF Len(s) < n THEN Len(s) ELSE n)

\* String.prototype.replace(ch, ''): removes the first occurrence only
replaceFirst(s, ch) ==
    IF \E i \in 1..Len(s) : s[i] = ch
    THEN LET i == CHOOSE k \in 1..Len(s) : s[k] = ch /\ \A j \in 1..(k - 1) : s[j] # ch
         IN  SubSeq(s, 1, i - 1) \o SubSeq(s, i + 1, Len(s))
    ELSE s

\* String.prototype.includes
includes(s, sub) ==
    \E i \in 0..(Len(s) - Len(sub)) : SubSeq(s, i + 1, i + Len(sub)) = sub

lowerOf(c) ==
    CASE c = "B" -> "b" [] c = "T" -> "t" [] c = "C" -> "c" [] c = "E" -> "e"
      [] c = "H" -> "h" [] c = "U" -> "u" [] c = "S" -> "s" [] c = "D" -> "d"
      [] c = "O" -> "o" [] c = "L" -> "l" [] c = "R" -> "r" [] c = "N" -> "n"
      [] c = "G" -> "g" [] c = "Y" -> "y" [] c = "A" -> "a" [] OTHER -> c

upperOf(c) ==
    CASE c = "b" -> "B" [] c = "t" -> "T" [] c = "c" -> "C" [] c = "e" -> "E"
      [] c = "h" -> "H" [] c = "u" -> "U" [] c = "s" -> "S" [] c = "d" -> "D"
      [] c = "o" -> "O" [] c = "l" -> "L" [] c = "r" -> "R" [] c = "n" -> "N"
      [] c = "g" -> "G" [] c = "y" -> "Y" [] c = "a" -> "A" [] OTHER -> c

toLowerCase(s) == [i \in 1..Len(s) |-> lowerOf(s[i])]
toUpperCase(s) == [i \in 1..Len(s) |-> upperOf(s[i])]

BTC_USDT == <<"B", "T", "C", "/", "U", "S", "D", "T">>
ETH_USDT == <<"E", "T", "H", "/", "U", "S", "D", "T">>

\* decimal digits of a natural number
RECURSIVE digits(_)
digits(n) ==
    IF n < 10 THEN <<CASE n = 0 -> "0" [] n = 1 -> "1" [] n = 2 -> "2" [] n = 3 -> "3"
                       [] n = 4 -> "4" [] n = 5 -> "5" [] n = 6 -> "6" [] n = 7 -> "7"
                       [] n = 8 -> "8" [] OTHER -> "9">>
    ELSE digits(n \div 10) \o digits(n % 10)

Pow10(k) == CASE k = 0 -> 1 [] k = 1 -> 10 [] k = 2 -> 100 [] OTHER -> 1000

\* (value / divisor).toFixed(places) for value >= 0, rounding half up
toFixed(value, divisor, places) ==
    LET p      == Pow10(places)
        scaled == IF divisor % p = 0
                  THEN (2 * value + divisor \div p) \div (2 * (divisor \div p))
                  ELSE (2 * value * p + divisor) \div (2 * divisor)
        whole  == scaled \div Pow10(places)
        frac   == scaled % Pow10(places)
        fracDigits == digits(frac)
        pad    == [i \in 1..(places - Len(fracDigits)) |-> "0"]
    IN  IF places = 0 THEN digits(whole)
        ELSE digits(whole) \o <<".">> \o pad \o fracDigits

(***************************************************************************)
(* Realtime feed aggregator (lib/trading/realtime-ws, behind useRealtime). *)
(***************************************************************************)
\* a trade is large above this notional
LARGE_TRADE_THRESHOLD == 500000
\* a trade is a whale trade above this notional
WHALE_TRADE_THRESHOLD == 1000000

emptyStats == [buyVolume |-> 0, sellVolume |-> 0, largeTradesCount |-> 0, liquidationsCount |-> 0]

emptyRealtime ==
    [connected |-> FALSE, trades |-> <<>>, liquidations |-> <<>>, whaleTrades |-> <<>>,
     stats |-> emptyStats, subscribed |-> {}]

\* isLarge / isWhale of a trade of the given notional
classify(notional) ==
    [isLarge |-> notional > LARGE_TRADE_THRESHOLD,
     isWhale |-> notional > WHALE_TRADE_THRESHOLD]

\* the aggregator's handler of one trade message
onTrade(rt, ev, id) ==
    LET notional == ev.price * ev.amount
        flags    == classify(notional)
        trade    == [id |-> id, exchange |-> "binance", symbol |-> ev.symbol, side |-> ev.side,
                     price |-> ev.price, amount |-> ev.amount, timestamp |-> id,
                     isLarge |-> flags.isLarge, isWhale |-> flags.isWhale]
    IN  [rt EXCEPT
            !.trades = <<trade>> \o @,
            !.whaleTrades = IF flags.isWhale THEN <<trade>> \o @ ELSE @,
            !.stats = [@ EXCEPT
                !.buyVolume = IF ev.side = "buy" THEN @ + notional ELSE @,
                !.sellVolume = IF ev.side = "sell" THEN @ + notional ELSE @,
                !.largeTradesCount = IF flags.isLarge THEN @ + 1 ELSE @]]

\* the aggregator's handler of one liquidation message
onLiquidation(rt, ev, id) ==
    LET liq == [id |-> id, symbol |-> ev.symbol, side |-> ev.side, price |-> ev.price,
                size |-> ev.amount, valueUsd |-> ev.price * ev.amount, timestamp |-> id]
    IN  [rt EXCEPT
            !.liquidations = <<liq>> \o @,
            !.stats = [@ EXCEPT !.liquidationsCount = @ + 1]]

onMessage(rt, ev, id) ==
    IF ev.type = "trade" THEN onTrade(rt, ev, id) ELSE onLiquidation(rt, ev, id)

\* connect(symbols): subscribes the symbols and opens the connection when it is closed
connect(rt, symbols) ==
    [rt EXCEPT !.subscribed = @ \cup symbols, !.connected = TRUE]

\* the socket closes: the connection state changes, the accumulated data stays
onClose(rt) == [rt EXCEPT !.connected = FALSE]

\* the socket is open again after a loss
onOpen(rt) == [rt EXCEPT !.connected = TRUE]

\* the feed state after processing the events of a tape in order
RECURSIVE replayRange(_, _, _, _)
replayRange(rt, events, lo, hi) ==
    IF lo > hi THEN rt
    ELSE IF lo = hi THEN onMessage(rt, events[lo], lo)
    ELSE LET mid  == (lo + hi) \div 2
             left == replayRange(rt, events, lo, mid)
         IN  \* a message never changes the connection state
             IF left.connected = rt.connected
             THEN replayRange(left, events, mid + 1, hi)
             ELSE rt

replay(rt, events) == replayRange(rt, events, 1, Len(events))

(***************************************************************************)
(* TradeFeed (components/trading/realtime/trade-feed.tsx).                 *)
(***************************************************************************)
TradeFeedProps(symbol) ==
    [symbol |-> symbol, showWhalesOnly |-> FALSE, showLiquidations |-> TRUE, maxItems |-> 50]

TradeFeedMini(symbol) ==
    [symbol |-> symbol, showWhalesOnly |-> TRUE, showLiquidations |-> TRUE, maxItems |-> 10]

DEFAULT_SYMBOLS ==
    { <<"b", "t", "c", "u", "s", "d", "t">>, <<"e", "t", "h", "u", "s", "d", "t">>,
      <<"s", "o", "l", "u", "s", "d", "t">> }

\* the symbols the mount effect passes to connect()
connectSymbols(symbol) ==
    IF symbol # NoSymbol THEN {toLowerCase(replaceFirst(symbol, "/"))} ELSE DEFAULT_SYMBOLS

\* t => !symbol || t.symbol.includes(symbol.replace('/', ''))
symbolFilter(symbol, item) ==
    symbol = NoSymbol \/ includes(item.symbol, replaceFirst(symbol, "/"))

displayTrades(p, rt) ==
    IF p.showWhalesOnly
    THEN slice0(rt.whaleTrades, p.maxItems)
    ELSE slice0(SelectSeq(rt.trades, LAMBDA t : symbolFilter(p.symbol, t)), p.maxItems)

displayLiquidations(p, rt) ==
    slice0(SelectSeq(rt.liquidations, LAMBDA l : symbolFilter(p.symbol, l)), 20)

formatUsd(value) ==
    IF value >= 1000000 THEN <<"$">> \o toFixed(value, 1000000, 2) \o <<"M">>
    ELSE IF value >= 1000 THEN <<"$">> \o toFixed(value, 1000, 1) \o <<"K">>
    ELSE <<"$">> \o toFixed(value, 1, 0)

\* a stats bar that is blanked while the feed is offline
statsBarOffline(rt) ==
    IF rt.connected
    THEN [buy |-> formatUsd(rt.stats.buyVolume), sell |-> formatUsd(rt.stats.sellVolume),
          large |-> rt.stats.largeTradesCount, liquidations |-> rt.stats.liquidationsCount]
    ELSE [buy |-> formatUsd(0), sell |-> formatUsd(0), large |-> 0, liquidations |-> 0]

\* the stats bar as rendered
statsBar(rt) ==
    [buy |-> formatUsd(rt.stats.buyVolume), sell |-> formatUsd(rt.stats.sellVolume),
     large |-> rt.stats.largeTradesCount, liquidations |-> rt.stats.liquidationsCount]

\* colour class of a trade row's notional
notionalClass(trade) ==
    IF trade.isWhale THEN "text-purple-400 font-bold"
    ELSE IF trade.isLarge THEN "text-yellow-400" ELSE "text-gray-500"

\* the rendered component
render(p, rt) ==
    [live |-> rt.connected,
     stats |-> statsBar(rt),
     liquidations |-> IF p.showLiquidations THEN displayLiquidations(p, rt) ELSE <<>>,
     trades |-> displayTrades(p, rt),
     connecting |-> displayTrades(p, rt) = <<>> /\ ~rt.connected]

(***************************************************************************)
(* The feed's inputs.                                                      *)
(***************************************************************************)
\* the feed's symbol of a subscription
feedSymbol(sub) == toUpperCase(sub)

BTCUSDT == feedSymbol(toLowerCase(replaceFirst(BTC_USDT, "/")))
ETHUSDT == feedSymbol(toLowerCase(replaceFirst(ETH_USDT, "/")))

TradeEvent(symbol, side, price, amount) ==
    [type |-> "trade", symbol |-> symbol, side |-> side, price |-> price, amount |-> amount]

LiquidationEvent(symbol, side, price, amount) ==
    [type |-> "liquidation", symbol |-> symbol, side |-> side, price |-> price, amount |-> amount]

\* notionals 100, 500, 600000 and 1200000 on either side
TradeEvents ==
    { TradeEvent(BTCUSDT, "buy", 100, 1), TradeEvent(BTCUSDT, "buy", 100, 5),
      TradeEvent(BTCUSDT, "sell", 100, 5), TradeEvent(ETHUSDT, "sell", 60000, 10),
      TradeEvent(ETHUSDT, "buy", 60000, 20), TradeEvent(BTCUSDT, "sell", 60000, 20) }

LiquidationEvents == { LiquidationEvent(ETHUSDT, "long", 3000, 10) }

\* earlier traffic of the shared feed, subscribed by another component: event k
scriptEvent(k) ==
    LET sym == IF k % 2 = 0 THEN BTCUSDT ELSE ETHUSDT
    IN  IF k % 3 = 0
        THEN LiquidationEvent(sym, IF k % 2 = 0 THEN "long" ELSE "short", 3000, 10)
        ELSE TradeEvent(sym, IF k % 4 < 2 THEN "buy" ELSE "sell", 60000,
                        IF k % 5 < 2 THEN 20 ELSE IF k % 5 = 2 THEN 10 ELSE 1)

script(n) == [k \in 1..n |-> scriptEvent(k)]

\* lengths of the earlier traffic: none, and enough to exceed every display cap
ScriptLengths == {0, ScriptLength}

\* events delivered since the initial state
delivered == IF Len(tape) >= ScriptLength THEN Len(tape) - ScriptLength ELSE Len(tape)

\* no TradeFeed is mounted and the feed is not connected
FeedIdle ==
    /\ realtime = emptyRealtime
    /\ props = TradeFeedProps(NoSymbol)
    /\ tape = <<>>
    /\ session = "first"

MountedProps ==
    { TradeFeedProps(NoSymbol), TradeFeedProps(BTC_USDT), TradeFeedMini(BTC_USDT) }

FeedInit ==
    /\ props \in MountedProps
    /\ \E n \in ScriptLengths :
        /\ tape = script(n)
        /\ realtime = connect(IF n = 0 THEN emptyRealtime
                               ELSE replay(connect(emptyRealtime, DEFAULT_SYMBOLS), script(n)),
                               connectSymbols(props.symbol))
    /\ session = "first"
    /\ AggrIdle
    /\ ChartUnmounted
    /\ SignalIdle
    /\ PanelIdle
    /\ EndpointIdle
    /\ ChatIdle
    /\ ScraperIdle
    /\ StoreIdle
    /\ AssistantIdle
    /\ StreamIdle
    /\ PollerIdle

\* the feed delivers a message of a subscribed symbol while connected
OnMessage ==
    /\ realtime.connected
    /\ delivered < MaxEvents
    /\ \E ev \in TradeEvents \cup LiquidationEvents :
        /\ toLowerCase(ev.symbol) \in realtime.subscribed
        /\ realtime' = onMessage(realtime, ev, Len(tape) + 1)
        /\ tape' = Append(tape, ev)
    /\ session' = IF session = "reopened" THEN "resumed" ELSE session
    /\ UNCHANGED <<props, notFeed>>

\* the connection is lost
OnClose ==
    /\ realtime.connected
    /\ realtime' = onClose(realtime)
    /\ session' = "lost"
    /\ UNCHANGED <<props, tape, notFeed>>

\* the connection is re-established
OnOpen ==
    /\ ~realtime.connected
    /\ realtime' = onOpen(realtime)
    /\ session' = "reopened"
    /\ UNCHANGED <<props, tape, notFeed>>

\* the parent re-renders TradeFeed with another symbol: the effect calls connect()
SymbolChange ==
    /\ \E s \in {NoSymbol, BTC_USDT} :
        /\ s # props.symbol
        /\ props' = [props EXCEPT !.symbol = s]
        /\ realtime' = connect(realtime, connectSymbols(s))
    /\ session' = IF realtime.connected THEN session ELSE "reopened"
    /\ UNCHANGED <<tape, notFeed>>

FeedNext == OnMessage \/ OnClose \/ OnOpen \/ SymbolChange

SpecFeed == FeedInit /\ [][FeedNext]_vars

(***************************************************************************)
(* Aggregated analytics endpoint, action=stats (hooks/index.ts).           *)
(***************************************************************************)
\* a line of a .jsonl file: blank, not JSON, or the JSON of a large-trade record
BlankLine == [kind |-> "blank"]
MalformedLine == [kind |-> "malformed"]
TradeLine(side, value_usd) == [kind |-> "json", side |-> side, value_usd |-> value_usd]

FileLines ==
    { BlankLine, MalformedLine, TradeLine("buy", 100), TradeLine("sell", 600000),
      TradeLine("buy", 1200000) }

\* line => line.trim()
nonBlank(line) == line.kind # "blank"

\* the parsed non-blank lines of a file, whether it can be read or not
parseJsonlFileUnguarded(file) ==
    LET lines == SelectSeq(file.lines, nonBlank)
    IN  IF \E i \in 1..Len(lines) : lines[i].kind = "malformed" THEN <<>> ELSE lines

\* parseJsonlFile: the parsed non-blank lines; [] when the file cannot be read
\* or a line is not JSON
parseJsonlFile(file) ==
    IF ~file.readable THEN <<>>
    ELSE LET lines == SelectSeq(file.lines, nonBlank)
         IN  IF \E i \in 1..Len(lines) : lines[i].kind = "malformed" THEN <<>> ELSE lines

\* countLines: the number of non-blank lines; 0 when the file cannot be read
countLines(file) ==
    IF ~file.readable THEN 0 ELSE Len(SelectSeq(file.lines, nonBlank))

\* fs.readdir(AGGR_DATA_DIR).catch(() => [])
readdir(dir) == IF ~dir.exists THEN <<>> ELSE dir.files

isTradeFile(f) == f.prefix = "large_trades_"
isLiqFile(f) == f.prefix = "liquidations_"

\* the for loop of getAggrStats over the parsed trades i..Len(trades)
RECURSIVE accumulate(_, _, _)
accumulate(stats, trades, i) ==
    IF i > Len(trades) THEN stats
    ELSE LET trade == trades[i]
             s1 == [stats EXCEPT !.totalVolumeUsd = @ + trade.value_usd]
             s2 == IF trade.side = "buy"
                   THEN [s1 EXCEPT !.buyVolume = @ + trade.value_usd]
                   ELSE [s1 EXCEPT !.sellVolume = @ + trade.value_usd]
             s3 == IF trade.value_usd >= 500000
                   THEN [s2 EXCEPT !.whaleTradesCount = @ + 1]
                   ELSE s2
         IN  accumulate(s3, trades, i + 1)

getAggrStats(dir) ==
    LET files      == readdir(dir)
        tradeFiles == SelectSeq(files, isTradeFile)
        liqFiles   == SelectSeq(files, isLiqFile)
        stats      == [totalTrades |-> 0, totalVolumeUsd |-> 0, buyVolume |-> 0, sellVolume |-> 0,
                       largeTradesCount |-> IF Len(tradeFiles) > 0
                                            THEN countLines(tradeFiles[Len(tradeFiles)]) ELSE 0,
                       whaleTradesCount |-> 0,
                       liquidationsCount |-> IF Len(liqFiles) > 0
                                             THEN countLines(liqFiles[Len(liqFiles)]) ELSE 0]
    IN  IF Len(tradeFiles) > 0
        THEN LET trades == parseJsonlFile(tradeFiles[Len(tradeFiles)])
             IN  [accumulate(stats, trades, 1) EXCEPT !.largeTradesCount = Len(trades)]
        ELSE stats

\* lines in all files of the directory
totalLines(dir) == SumSeq([i \in 1..Len(dir.files) |-> Len(dir.files[i].lines)])

AggrInit ==
    /\ aggrDir = NoDir
    /\ aggrResponse = <<>>
    /\ FeedIdle
    /\ ChartUnmounted
    /\ SignalIdle
    /\ PanelIdle
    /\ EndpointIdle
    /\ ChatIdle
    /\ ScraperIdle
    /\ StoreIdle
    /\ AssistantIdle
    /\ StreamIdle
    /\ PollerIdle

\* the scraper creates the data directory
MkDir ==
    /\ ~aggrDir.exists
    /\ aggrDir' = [exists |-> TRUE, files |-> <<>>]
    /\ aggrResponse' = <<>>
    /\ UNCHANGED notAggr

\* the scraper starts a new file; a file may be unreadable to the server
CreateFile ==
    /\ aggrDir.exists
    /\ Len(aggrDir.files) < MaxFiles
    /\ \E prefix \in {"large_trades_", "liquidations_"}, readable \in BOOLEAN :
        aggrDir' = [aggrDir EXCEPT !.files =
                        Append(@, [prefix |-> prefix, readable |-> readable, lines |-> <<>>])]
    /\ aggrResponse' = <<>>
    /\ UNCHANGED notAggr

\* the scraper appends a line to the newest file
AppendLine ==
    /\ aggrDir.exists
    /\ Len(aggrDir.files) > 0
    /\ totalLines(aggrDir) < MaxLines
    /\ \E line \in FileLines :
        aggrDir' = [aggrDir EXCEPT !.files[Len(aggrDir.files)].lines = Append(@, line)]
    /\ aggrResponse' = <<>>
    /\ UNCHANGED notAggr

\* GET /api/aggr?action=stats
GetStats ==
    /\ aggrResponse' = <<getAggrStats(aggrDir)>>
    /\ UNCHANGED <<aggrDir, notAggr>>

AggrNext == MkDir \/ CreateFile \/ AppendLine \/ GetStats

SpecAggr == AggrInit /\ [][AggrNext]_vars

(***************************************************************************)
(* Claims: realtime feed and analytics endpoint.                           *)
(***************************************************************************)
notionalOf(ev) == ev.price * ev.amount

\* the notional of the trades of one side among the events processed so far
tapeVolume(side) ==
    SumSeq([i \in 1..Len(tape) |->
                IF tape[i].type = "trade" /\ tape[i].side = side THEN notionalOf(tape[i]) ELSE 0])

servedTrades ==
    LET tradeFiles == SelectSeq(readdir(aggrDir), isTradeFile)
    IN  IF Len(tradeFiles) > 0 THEN parseJsonlFile(tradeFiles[Len(tradeFiles)]) ELSE <<>>

\* C2: every processed trade is classified against large = 500000 and
\* whale = 1000000: the whale count is the number of trades above the whale
\* threshold, the other large trades are those above the large threshold only,
\* and buyVolume + sellVolume is the total notional processed.
C2_ClassifiedByTwoThresholds ==
    aggrResponse # <<>> =>
        LET body   == aggrResponse[1]
            values == [i \in 1..Len(servedTrades) |-> servedTrades[i].value_usd]
            whales == {i \in 1..Len(values) : values[i] > WHALE_TRADE_THRESHOLD}
            larges == {i \in 1..Len(values) : values[i] > LARGE_TRADE_THRESHOLD}
        IN  /\ body.whaleTradesCount = Cardinality(whales)
            /\ body.largeTradesCount - body.whaleTradesCount = Cardinality(larges \ whales)
            /\ body.buyVolume + body.sellVolume = SumSeq(values)

\* the source list a TradeFeed displays
sourceTrades(p, rt) == IF p.showWhalesOnly THEN rt.whaleTrades ELSE rt.trades

\* C3: the displayed trades are at most maxItems (50, or 10 in TradeFeedMini)
\* and the displayed liquidations at most 20, each the front of the
\* symbol-filtered source list.
C3_DisplayListsCappedAndFiltered ==
    LET view == render(props, realtime)
        shownTrades == SelectSeq(sourceTrades(props, realtime), LAMBDA t : symbolFilter(props.symbol, t))
        shownLiqs   == SelectSeq(realtime.liquidations, LAMBDA l : symbolFilter(props.symbol, l))
    IN  /\ props.maxItems = IF props.showWhalesOnly THEN 10 ELSE 50
        /\ Len(view.trades) <= props.maxItems
        /\ Len(view.liquidations) <= 20
        /\ view.trades = SubSeq(shownTrades, 1, Len(view.trades))
        /\ Len(view.trades) = props.maxItems \/ Len(view.trades) = Len(shownTrades)
        /\ view.liquidations = SubSeq(shownLiqs, 1, Len(view.liquidations))
        /\ Len(view.liquidations) = 20 \/ Len(view.liquidations) = Len(shownLiqs)

(***************************************************************************)
(* Ichimoku indicator (lib/trading/indicators/ichimoku).                   *)
(* Candle prices are whole ticks, multiples of 40, so that the midpoints    *)
(* (/2, /4) and the 10% padding of the chart are whole ticks too.          *)
(***************************************************************************)

DEFAULT_ICHIMOKU_CONFIG ==
    [conversionPeriod |-> 9, basePeriod |-> 26, leadingSpanBPeriod |-> 52, displacement |-> 26]

RECURSIVE maxHigh(_, _, _)
maxHigh(candles, lo, hi) ==
    IF lo = hi THEN candles[lo].high
    ELSE LET mid == (lo + hi) \div 2
             a == maxHigh(candles, lo, mid)
             b == maxHigh(candles, mid + 1, hi)
         IN  IF a >= b THEN a ELSE b

RECURSIVE minLow(_, _, _)
minLow(candles, lo, hi) ==
    IF lo = hi THEN candles[lo].low
    ELSE LET mid == (lo + hi) \div 2
             a == minLow(candles, lo, mid)
             b == minLow(candles, mid + 1, hi)
         IN  IF a <= b THEN a ELSE b

\* (highest high + lowest low) / 2 over the `period` candles ending at candle i
\* (1-based); null while fewer than `period` candles exist
midpoint(candles, period, i) ==
    IF i < period \/ i > Len(candles) THEN Null
    ELSE Some((maxHigh(candles, i - period + 1, i) + minLow(candles, i - period + 1, i)) \div 2)

\* senkou span A computed at candle i
spanA(candles, config, i) ==
    LET tenkan == midpoint(candles, config.conversionPeriod, i)
        kijun  == midpoint(candles, config.basePeriod, i)
    IN  IF tenkan = Null \/ kijun = Null THEN Null ELSE Some((tenkan[1] + kijun[1]) \div 2)

\* senkou span B computed at candle i
spanB(candles, config, i) == midpoint(candles, config.leadingSpanBPeriod, i)

cloudOf(a, b) ==
    [senkouSpanA |-> a, senkouSpanB |-> b,
     cloudTop |-> IF a = Null \/ b = Null THEN Null ELSE Some(IF a[1] >= b[1] THEN a[1] ELSE b[1]),
     cloudBottom |-> IF a = Null \/ b = Null THEN Null ELSE Some(IF a[1] <= b[1] THEN a[1] ELSE b[1]),
     cloudColor |-> IF a = Null \/ b = Null \/ a[1] >= b[1] THEN "bullish" ELSE "bearish"]

\* record i (from 1): the lines at bar i and the spans plotted at bar i, which
\* are those computed `displacement` bars earlier
ichimokuRecord(candles, config, i) ==
    LET from  == i - config.displacement
        a     == IF from >= 1 THEN spanA(candles, config, from) ELSE Null
        b     == IF from >= 1 THEN spanB(candles, config, from) ELSE Null
        cloud == cloudOf(a, b)
    IN  [tenkanSen |-> midpoint(candles, config.conversionPeriod, i),
         kijunSen |-> midpoint(candles, config.basePeriod, i),
         senkouSpanA |-> cloud.senkouSpanA, senkouSpanB |-> cloud.senkouSpanB,
         chikouSpan |-> Some(candles[i].close),
         cloudTop |-> cloud.cloudTop, cloudBottom |-> cloud.cloudBottom,
         cloudColor |-> cloud.cloudColor]

\* one record per candle with 0 in place of every value not yet available
calculateIchimokuZeroFilled(candles, config) ==
    [i \in 1..Len(candles) |->
        LET r == ichimokuRecord(candles, config, i)
            zeroFill(v) == IF v = Null THEN Some(0) ELSE v
        IN  [r EXCEPT !.tenkanSen = zeroFill(@), !.kijunSen = zeroFill(@),
                      !.senkouSpanA = zeroFill(@), !.senkouSpanB = zeroFill(@),
                      !.cloudTop = zeroFill(@), !.cloudBottom = zeroFill(@)]]

\* one record per candle, index-aligned with the candles
calculateIchimoku(candles, config) ==
    [i \in 1..Len(candles) |-> ichimokuRecord(candles, config, i)]

\* the spans plotted at the `displacement` bars after the last candle: those
\* computed at the last `displacement` candles
calculateFutureCloud(candles, config) ==
    [k \in 1..config.displacement |->
        LET from  == Len(candles) - config.displacement + k
            cloud == cloudOf(IF from >= 1 THEN spanA(candles, config, from) ELSE Null,
                             IF from >= 1 THEN spanB(candles, config, from) ELSE Null)
        IN  [senkouSpanA |-> cloud.senkouSpanA, senkouSpanB |-> cloud.senkouSpanB,
             cloudColor |-> cloud.cloudColor]]

\* the four conditions at the last candle, each voting 1 (bullish), -1 (bearish) or 0
signalConditions(candles, ichimoku) ==
    LET n     == Len(candles)
        last  == ichimoku[n]
        close == candles[n].close
        vote(bull, bear) == IF bull THEN 1 ELSE IF bear THEN -1 ELSE 0
    IN  [cloud  |-> IF last.cloudTop = Null THEN 0
                    ELSE vote(close > last.cloudTop[1], close < last.cloudBottom[1]),
         cross  |-> IF last.tenkanSen = Null \/ last.kijunSen = Null THEN 0
                    ELSE vote(last.tenkanSen[1] > last.kijunSen[1], last.tenkanSen[1] < last.kijunSen[1]),
         color  |-> IF last.cloudTop = Null THEN 0
                    ELSE vote(last.cloudColor = "bullish", last.cloudColor = "bearish"),
         chikou |-> IF n <= 26 THEN 0
                    ELSE vote(close > candles[n - 26].close, close < candles[n - 26].close)]

\* the votes summed with a weight of 30 each
scoreOfHeavyVotes(votes) == 30 * (votes.cloud + votes.cross + votes.color + votes.chikou)

\* the votes summed with a weight of 25 each: bullish minus bearish
scoreOf(votes) == 25 * (votes.cloud + votes.cross + votes.color + votes.chikou)

\* the signal of a score: its side, and its strength as the confidence
signalOf(votes) ==
    LET score      == scoreOf(votes)
        confidence == IF score >= 0 THEN score ELSE -score
    IN  [type |-> IF confidence >= 75 THEN (IF score > 0 THEN "strong_buy" ELSE "strong_sell")
                  ELSE IF confidence >= 50 THEN (IF score > 0 THEN "buy" ELSE "sell")
                  ELSE "neutral",
         confidence |-> confidence]

signalScore(candles, ichimoku) == scoreOf(signalConditions(candles, ichimoku))

analyzeIchimokuSignals(candles, ichimoku) == signalOf(signalConditions(candles, ichimoku))

(***************************************************************************)
(* TradingChart (components/trading/chart/trading-chart.tsx).              *)
(* A price is a whole number of ticks.  A Y coordinate of one frame is the *)
(* fraction n/d whose denominator is the frame's chartPriceRange: d = 0 is *)
(* the division by zero, NaN when n = 0 and +/-Infinity by the sign of n.  *)
(* An X coordinate is the fraction n/d with d = 2 * totalBars.             *)
(***************************************************************************)
RECURSIVE concatRange(_, _, _)
concatRange(parts, lo, hi) ==
    IF lo > hi THEN <<>>
    ELSE IF lo = hi THEN parts[lo]
    ELSE LET mid == (lo + hi) \div 2
         IN  concatRange(parts, lo, mid) \o concatRange(parts, mid + 1, hi)

\* Array.prototype.flatMap over the pieces parts[1..Len(parts)]
flatMap(parts) == concatRange(parts, 1, Len(parts))

RECURSIVE minRange(_, _, _)
minRange(s, lo, hi) ==
    IF lo = hi THEN s[lo]
    ELSE LET mid == (lo + hi) \div 2
             a == minRange(s, lo, mid)
             b == minRange(s, mid + 1, hi)
         IN  IF a <= b THEN a ELSE b

RECURSIVE maxRange(_, _, _)
maxRange(s, lo, hi) ==
    IF lo = hi THEN s[lo]
    ELSE LET mid == (lo + hi) \div 2
             a == maxRange(s, lo, mid)
             b == maxRange(s, mid + 1, hi)
         IN  IF a >= b THEN a ELSE b

\* Math.min(...s), Math.max(...s) of a non-empty array
MathMin(s) == minRange(s, 1, Len(s))
MathMax(s) == maxRange(s, 1, Len(s))

\* `if (v) allPrices.push(v)`: null and 0 are falsy
pushIfTruthy(v) == IF v = Null \/ v[1] = 0 THEN <<>> ELSE <<v[1]>>

allPrices(candles, show, ichimoku, future) ==
    flatMap([i \in 1..Len(candles) |-> <<candles[i].high, candles[i].low>>])
    \o (IF show /\ Len(ichimoku) > 0
        THEN flatMap([i \in 1..Len(ichimoku) |->
                        pushIfTruthy(ichimoku[i].cloudTop) \o pushIfTruthy(ichimoku[i].cloudBottom)
                        \o pushIfTruthy(ichimoku[i].tenkanSen) \o pushIfTruthy(ichimoku[i].kijunSen)])
             \o flatMap([i \in 1..Len(future) |->
                        pushIfTruthy(future[i].senkouSpanA) \o pushIfTruthy(future[i].senkouSpanB)])
        ELSE <<>>)

chartPadding == [top |-> 20, right |-> 80, bottom |-> 30, left |-> 20]

\* as many bars as candles, none kept free for the projected cloud
totalBarsCandlesOnly(candles, show) == Len(candles)

\* chartCandles.length + (showIchimoku ? 26 : 0)
totalBars(candles, show) == Len(candles) + (IF show THEN 26 ELSE 0)

\* the price axis and the chart area of one frame
frame(candles, show, ichimoku, future, dims) ==
    LET prices   == allPrices(candles, show, ichimoku, future)
        minPrice == MathMin(SelectSeq(prices, LAMBDA p : p > 0))
        maxPrice == MathMax(prices)
        priceRange == maxPrice - minPrice
        padding  == priceRange \div 10
        chartMinPrice == minPrice - padding
        chartMaxPrice == maxPrice + padding
    IN  [width |-> dims.width, height |-> dims.height,
         minPrice |-> minPrice, maxPrice |-> maxPrice, priceRange |-> priceRange,
         padding |-> padding, chartMinPrice |-> chartMinPrice, chartMaxPrice |-> chartMaxPrice,
         chartPriceRange |-> chartMaxPrice - chartMinPrice,
         chartWidth |-> dims.width - chartPadding.left - chartPadding.right,
         chartHeight |-> dims.height - chartPadding.top - chartPadding.bottom,
         totalBars |-> totalBars(candles, show)]

\* chartPadding.top + ((chartMaxPrice - price) / chartPriceRange) * chartHeight
priceToY(f, price) ==
    [n |-> chartPadding.top * f.chartPriceRange + (f.chartMaxPrice - price) * f.chartHeight,
     d |-> f.chartPriceRange]

\* chartPadding.left + index * candleSpacing + candleSpacing / 2, index from 0
indexToX(f, index) ==
    [n |-> 2 * f.totalBars * chartPadding.left + (2 * index + 1) * f.chartWidth,
     d |-> 2 * f.totalBars]

NaN == [n |-> 0, d |-> 0]
isNaN(y) == y.d = 0 /\ y.n = 0

\* y > c and y < c for a pixel count c; every comparison with NaN is false
greater(y, c) == IF y.d = 0 THEN y.n > 0 ELSE y.n > c * y.d
less(y, c) == IF y.d = 0 THEN y.n < 0 ELSE y.n < c * y.d

\* a - b of two Y coordinates of one frame
minus(a, b) ==
    IF a.d # 0 THEN [n |-> a.n - b.n, d |-> a.d]
    ELSE IF a.n = 0 \/ b.n = 0 \/ (a.n > 0) = (b.n > 0) THEN NaN
    ELSE [n |-> a.n, d |-> 0]

\* Math.abs
abs(y) == [n |-> IF y.n < 0 THEN -y.n ELSE y.n, d |-> y.d]

\* `h || 1`: 0 and NaN are falsy
orOne(h) == IF h.n = 0 THEN [n |-> 1, d |-> 1] ELSE h

\* Math.max(h, 1): NaN stays NaN
maxOne(h) == IF isNaN(h) THEN NaN ELSE IF h.d # 0 /\ h.n < h.d THEN [n |-> 1, d |-> 1] ELSE h

\* Math.min(a, b) of two Y coordinates of one frame
minY(a, b) == IF isNaN(a) \/ isNaN(b) THEN NaN ELSE IF a.n <= b.n THEN a ELSE b

\* the horizontal grid lines and their price labels
drawGrid(f) ==
    flatMap([k \in 1..6 |->
        LET i == k - 1
        IN  << [layer |-> "grid", kind |-> "stroke", i |-> i,
                y |-> [n |-> 5 * chartPadding.top + f.chartHeight * i, d |-> 5]],
               [layer |-> "grid", kind |-> "fillText", i |-> i,
                price |-> [n |-> 5 * f.chartMaxPrice - f.chartPriceRange * i, d |-> 5]] >>])

\* one rectangle per projected bar whose two spans exist
drawFutureCloud(f, candles, future) ==
    flatMap([k \in 1..Len(future) |->
        LET fc == future[k]
        IN  IF fc.senkouSpanA = Null \/ fc.senkouSpanB = Null THEN <<>>
            ELSE LET yA == priceToY(f, fc.senkouSpanA[1])
                     yB == priceToY(f, fc.senkouSpanB[1])
                 IN  << [layer |-> "futureCloud", kind |-> "fillRect", i |-> Len(candles) + k - 1,
                         x |-> indexToX(f, Len(candles) + k - 1),
                         prices |-> <<fc.senkouSpanA[1], fc.senkouSpanB[1]>>,
                         y |-> minY(yA, yB), h |-> orOne(abs(minus(yB, yA))),
                         color |-> fc.cloudColor] >>])

\* the rectangle of bar i (from 0) with its top edge at cloudBottom
cloudRectFromBottom(f, i, ichi) ==
    LET yTop    == priceToY(f, ichi.cloudTop[1])
        yBottom == priceToY(f, ichi.cloudBottom[1])
    IN  [layer |-> "historicalCloud", kind |-> "fillRect", i |-> i, x |-> indexToX(f, i),
         prices |-> <<ichi.cloudTop[1], ichi.cloudBottom[1]>>,
         y |-> yBottom, h |-> orOne(minus(yTop, yBottom)), color |-> ichi.cloudColor]

\* fillRect(x - candleSpacing / 2, yTop, candleSpacing, yBottom - yTop || 1) of bar i (from 0)
cloudRect(f, i, ichi) ==
    LET yTop    == priceToY(f, ichi.cloudTop[1])
        yBottom == priceToY(f, ichi.cloudBottom[1])
    IN  [layer |-> "historicalCloud", kind |-> "fillRect", i |-> i, x |-> indexToX(f, i),
         prices |-> <<ichi.cloudTop[1], ichi.cloudBottom[1]>>,
         y |-> yTop, h |-> orOne(minus(yBottom, yTop)), color |-> ichi.cloudColor]

\* one rectangle per bar whose cloud exists
drawHistoricalCloud(f, ichimoku) ==
    flatMap([k \in 1..Len(ichimoku) |->
        IF ichimoku[k].cloudTop = Null \/ ichimoku[k].cloudBottom = Null THEN <<>>
        ELSE << cloudRect(f, k - 1, ichimoku[k]) >>])

\* the path through the non-null values of one line; stroke() runs even when it is empty
drawLine(f, line, values) ==
    [layer |-> "lines", kind |-> "stroke", line |-> line,
     points |-> flatMap([k \in 1..Len(values) |->
                    IF values[k] = Null THEN <<>>
                    ELSE << [i |-> k - 1, price |-> values[k][1], x |-> indexToX(f, k - 1),
                             y |-> priceToY(f, values[k][1])] >>])]

\* the candle index (from 0) read at every bar of the candle list
chikouReadsEveryBar(candles) == [k \in 1..Len(candles) |-> (k - 1) + 26]

\* `for (i = 0; i < chartCandles.length - 26; i++) chartCandles[i + 26]`:
\* the candle index (from 0) read at bar i = k - 1
chikouReads(candles) ==
    [k \in 1..(IF Len(candles) > 26 THEN Len(candles) - 26 ELSE 0) |-> (k - 1) + 26]

\* the close of candle i + 26 plotted at bar i; `?.close` of a candle that
\* does not exist is undefined and the bar is skipped
chikouValues(candles) ==
    LET reads == chikouReads(candles)
    IN  [k \in 1..Len(reads) |->
            IF reads[k] + 1 \in 1..Len(candles) THEN Some(candles[reads[k] + 1].close) ELSE Null]

drawLines(f, candles, ichimoku) ==
    << drawLine(f, "tenkanSen", [k \in 1..Len(ichimoku) |-> ichimoku[k].tenkanSen]),
       drawLine(f, "kijunSen", [k \in 1..Len(ichimoku) |-> ichimoku[k].kijunSen]),
       drawLine(f, "chikouSpan", chikouValues(candles)) >>

\* wick and body of every candle
drawCandles(f, candles) ==
    flatMap([k \in 1..Len(candles) |->
        LET c      == candles[k]
            color  == IF c.close >= c.open THEN "green" ELSE "red"
            yOpen  == priceToY(f, c.open)
            yClose == priceToY(f, c.close)
        IN  << [layer |-> "candles", kind |-> "wick", i |-> k - 1, x |-> indexToX(f, k - 1),
                prices |-> <<c.high, c.low>>,
                y |-> priceToY(f, c.high), yEnd |-> priceToY(f, c.low), color |-> color],
               [layer |-> "candles", kind |-> "body", i |-> k - 1, x |-> indexToX(f, k - 1),
                prices |-> <<c.open, c.close>>,
                y |-> minY(yOpen, yClose), h |-> maxOne(abs(minus(yClose, yOpen))),
                color |-> color] >>])

\* y > chartPadding.top && y < height - chartPadding.bottom
strictlyInside(f, y) == greater(y, chartPadding.top) /\ less(y, f.height - chartPadding.bottom)

\* a dashed line with its label, only when it falls strictly inside the chart area
drawMarker(f, label, price) ==
    IF price = Null \/ price[1] = 0 THEN <<>>
    ELSE LET y == priceToY(f, price[1])
         IN  IF strictlyInside(f, y)
             THEN << [layer |-> "markers", kind |-> "marker", label |-> label,
                      price |-> price[1], y |-> y] >>
             ELSE <<>>

\* positions.find(p => p.symbol === symbol): entry, stop loss, take profit
drawMarkers(f, symbol, held) ==
    LET mine == SelectSeq(held, LAMBDA p : p.symbol = symbol)
    IN  IF Len(mine) = 0 THEN <<>>
        ELSE drawMarker(f, "Entry", Some(mine[1].entryPrice))
             \o drawMarker(f, "SL", mine[1].stopLoss)
             \o drawMarker(f, "TP", mine[1].takeProfit)

\* realtimePrice?.price || ticker?.last || last close || 0
currentPrice(candles, rp, tk) ==
    IF rp # Null /\ rp[1] # 0 THEN rp[1]
    ELSE IF tk # Null /\ tk[1] # 0 THEN tk[1]
    ELSE IF Len(candles) > 0 THEN candles[Len(candles)].close
    ELSE 0

drawPriceLine(f, candles, rp, tk, connected) ==
    LET price == currentPrice(candles, rp, tk)
        y     == priceToY(f, price)
    IN  IF strictlyInside(f, y)
        THEN << [layer |-> "priceLine", kind |-> "priceLine", price |-> price, y |-> y,
                 color |-> IF connected THEN "live" ELSE "stale"] >>
        ELSE <<>>

\* the overlay block, entered only with the toggle on and indicator records present
drawOverlays(f, candles, show, ichimoku, future) ==
    IF show /\ Len(ichimoku) > 0
    THEN drawFutureCloud(f, candles, future) \o drawHistoricalCloud(f, ichimoku)
         \o drawLines(f, candles, ichimoku)
    ELSE <<>>

\* every paint operation of one pass with the candles painted before the overlays
drawChartCandlesFirst(f, candles, show, ichimoku, future, symbol, held, rp, tk, connected) ==
    drawGrid(f)
    \o drawCandles(f, candles)
    \o drawOverlays(f, candles, show, ichimoku, future)
    \o drawMarkers(f, symbol, held)
    \o drawPriceLine(f, candles, rp, tk, connected)

\* every paint operation of one pass, in the order the effect issues them
drawChart(f, candles, show, ichimoku, future, symbol, held, rp, tk, connected) ==
    drawGrid(f)
    \o drawOverlays(f, candles, show, ichimoku, future)
    \o drawCandles(f, candles)
    \o drawMarkers(f, symbol, held)
    \o drawPriceLine(f, candles, rp, tk, connected)

\* the draw effect: returns at once without candles, otherwise clears and repaints
drawEffect(before, candles, show, ichimoku, future, dims, symbol, held, rp, tk, connected) ==
    IF Len(candles) = 0 THEN before
    ELSE LET f == frame(candles, show, ichimoku, future, dims)
         IN  [painted |-> TRUE, frame |-> f,
              ops |-> drawChart(f, candles, show, ichimoku, future, symbol, held, rp, tk, connected)]

\* useMemo: the indicator records, whatever the toggle says
memoIchimokuAlways(candles, show) ==
    IF Len(candles) < 52 THEN <<>> ELSE calculateIchimoku(candles, DEFAULT_ICHIMOKU_CONFIG)

\* useMemo: [] when the toggle is off or there are fewer than 52 candles
memoIchimoku(candles, show) ==
    IF ~show \/ Len(candles) < 52 THEN <<>>
    ELSE calculateIchimoku(candles, DEFAULT_ICHIMOKU_CONFIG)

memoFutureCloud(candles, show) ==
    IF ~show \/ Len(candles) < 52 THEN <<>>
    ELSE calculateFutureCloud(candles, DEFAULT_ICHIMOKU_CONFIG)

memoSignal(candles, show, ichimoku) ==
    IF ~show \/ Len(ichimoku) = 0 THEN Null
    ELSE Some(analyzeIchimokuSignals(candles, ichimoku))

\* the symbol prop of the mounted chart
chartSymbol == BTC_USDT

(***************************************************************************)
(* Inputs of the chart.                                                    *)
(***************************************************************************)
\* the longest candle series the market-data hook returns
MaxCandles == 80

BasePrice == 4000

candle(k, open, high, low, close) ==
    [time |-> k, open |-> open, high |-> high, low |-> low, close |-> close]

\* candle k of a series: a market that does not move, one that climbs, one that swings
candleAt(shape, k) ==
    CASE shape = "flat"   -> candle(k, BasePrice, BasePrice, BasePrice, BasePrice)
      [] shape = "rising" -> candle(k, BasePrice + 40 * k, BasePrice + 40 * k + 80,
                                    BasePrice + 40 * k - 40, BasePrice + 40 * k + 40)
      [] OTHER            -> LET up  == (k \div 8) % 2 = 0
                                 mid == BasePrice + 1600 + (IF up THEN 1 ELSE -1) * (120 * (k % 8) - 480)
                             IN  IF up THEN candle(k, mid, mid + 160, mid - 40, mid + 120)
                                 ELSE candle(k, mid, mid + 40, mid - 160, mid - 120)

series(shape, n) == [k \in 1..n |-> candleAt(shape, k)]

Shapes == {"flat", "rising", "swinging"}

\* one candle, one short of the longest indicator window, exactly the window, and enough for the cloud
SeriesLengths ==
    {1, DEFAULT_ICHIMOKU_CONFIG.leadingSpanBPeriod - 1, DEFAULT_ICHIMOKU_CONFIG.leadingSpanBPeriod,
     MaxCandles}

CandleSeries == { series(shape, n) : shape \in Shapes, n \in SeriesLengths }

Containers == { [width |-> 800, height |-> 400], [width |-> 400, height |-> 300] }

position(id, symbol, entryPrice, stopLoss, takeProfit) ==
    [id |-> id, symbol |-> symbol, entryPrice |-> entryPrice, stopLoss |-> stopLoss,
     takeProfit |-> takeProfit]

\* no position; one on the chart's symbol; one on another symbol before one on the chart's
Portfolios ==
    { <<>>,
      << position(1, BTC_USDT, BasePrice + 40, Null, Null) >>,
      << position(1, ETH_USDT, BasePrice, Null, Null),
         position(2, BTC_USDT, BasePrice + 80, Some(40), Some(BasePrice + 120)) >> }

LivePrices == { Null, Some(BasePrice + 80) }
TickerPrices == { Null, Some(BasePrice) }

\* React commits the new inputs: the memos are recomputed when their dependencies
\* changed, then the draw effect runs
Commit(candles, show, dims, held, rp, tk) ==
    LET ichimoku == IF candles = chartCandles /\ show = showIchimoku THEN ichimokuData
                    ELSE memoIchimoku(candles, show)
        future   == IF candles = chartCandles /\ show = showIchimoku THEN futureCloud
                    ELSE memoFutureCloud(candles, show)
    IN  /\ chartCandles' = candles
        /\ showIchimoku' = show
        /\ dimensions' = dims
        /\ positions' = held
        /\ realtimePrice' = rp
        /\ ticker' = tk
        /\ ichimokuData' = ichimoku
        /\ futureCloud' = future
        /\ ichimokuSignal' = memoSignal(candles, show, ichimoku)
        /\ canvas' = drawEffect(canvas, candles, show, ichimoku, future, dims, chartSymbol,
                                held, rp, tk, realtime.connected)

\* the chart is mounted while the candles are still loading: nothing is drawn
ChartInit ==
    /\ chartCandles = <<>>
    /\ showIchimoku = TRUE
    /\ dimensions = [width |-> 800, height |-> 400]
    /\ positions \in Portfolios
    /\ realtimePrice = Null
    /\ ticker = Null
    /\ ichimokuData = memoIchimoku(<<>>, TRUE)
    /\ futureCloud = memoFutureCloud(<<>>, TRUE)
    /\ ichimokuSignal = memoSignal(<<>>, TRUE, <<>>)
    /\ canvas = blankCanvas
    /\ realtime = connect(emptyRealtime, {toLowerCase(replaceFirst(chartSymbol, "/"))})
    /\ props = TradeFeedProps(NoSymbol)
    /\ tape = <<>>
    /\ session = "first"
    /\ AggrIdle
    /\ SignalIdle
    /\ PanelIdle
    /\ EndpointIdle
    /\ ChatIdle
    /\ ScraperIdle
    /\ StoreIdle
    /\ AssistantIdle
    /\ StreamIdle
    /\ PollerIdle

\* useMarketData delivers a candle series
RefetchCandles ==
    /\ \E c \in CandleSeries :
        /\ c # chartCandles
        /\ Commit(c, showIchimoku, dimensions, positions, realtimePrice, ticker)
    /\ UNCHANGED notChart

\* the Ichimoku button
ToggleIchimoku ==
    /\ Commit(chartCandles, ~showIchimoku, dimensions, positions, realtimePrice, ticker)
    /\ UNCHANGED notChart

\* the ResizeObserver reports another container size
Resize ==
    /\ \E d \in Containers :
        /\ d # dimensions
        /\ Commit(chartCandles, showIchimoku, d, positions, realtimePrice, ticker)
    /\ UNCHANGED notChart

\* the store's positions change
PositionsChange ==
    /\ \E held \in Portfolios :
        /\ held # positions
        /\ Commit(chartCandles, showIchimoku, dimensions, held, realtimePrice, ticker)
    /\ UNCHANGED notChart

\* the realtime feed reports a price for the symbol, or has none
PriceTick ==
    /\ \E rp \in LivePrices :
        /\ rp # realtimePrice
        /\ Commit(chartCandles, showIchimoku, dimensions, positions, rp, ticker)
    /\ UNCHANGED notChart

\* the market-data hook reports a ticker, or has none
TickerUpdate ==
    /\ \E tk \in TickerPrices :
        /\ tk # ticker
        /\ Commit(chartCandles, showIchimoku, dimensions, positions, realtimePrice, tk)
    /\ UNCHANGED notChart

ChartNext ==
    RefetchCandles \/ ToggleIchimoku \/ Resize \/ PositionsChange \/ PriceTick \/ TickerUpdate

SpecChart == ChartInit /\ [][ChartNext]_vars

(***************************************************************************)
(* Properties of the chart.                                                *)
(***************************************************************************)
layerOps(layer) == SelectSeq(canvas.ops, LAMBDA o : o.layer = layer)

\* the overlay and candle values the claims name: cloud edges, spans, line points, highs and lows
drawnValues ==
    UNION { IF o.layer = "lines" THEN { o.points[k].price : k \in 1..Len(o.points) }
            ELSE IF o.kind \in {"fillRect", "wick"} THEN { o.prices[1], o.prices[2] }
            ELSE {} : o \in { canvas.ops[k] : k \in 1..Len(canvas.ops) } }

\* top <= y <= top + chartHeight, false for NaN and the infinities
insideChartArea(f, y) ==
    /\ y.d # 0
    /\ y.n >= chartPadding.top * y.d
    /\ y.n <= (chartPadding.top + f.chartHeight) * y.d

\* C4: in every completed render pass the axis is padded by 10% of the price
\* range on both sides and the range priceToY divides by is not zero
C4_PaddedRangeNeverZero ==
    canvas.painted =>
        LET f == canvas.frame
        IN  /\ 10 * f.padding = f.priceRange
            /\ f.chartMinPrice = f.minPrice - f.padding
            /\ f.chartMaxPrice = f.maxPrice + f.padding
            /\ f.chartPriceRange # 0

\* C5: with the indicators enabled, every value a pass draws lies within
\* [chartMinPrice, chartMaxPrice] and its Y coordinate lies inside the chart area
C5_DrawnValuesInsideChartArea ==
    (canvas.painted /\ showIchimoku) =>
        \A v \in drawnValues :
            /\ canvas.frame.chartMinPrice <= v
            /\ v <= canvas.frame.chartMaxPrice
            /\ insideChartArea(canvas.frame, priceToY(canvas.frame, v))

layerRank(layer) ==
    CASE layer = "grid" -> 1
      [] layer = "futureCloud" -> 2
      [] layer = "historicalCloud" -> 3
      [] layer = "lines" -> 4
      [] layer = "candles" -> 5
      [] layer = "markers" -> 6
      [] OTHER -> 7

\* C6: within one pass no paint operation of an earlier layer follows one of a
\* later layer, the layers being grid, future cloud, historical cloud, lines,
\* candles, markers, price line
C6_LayersPaintedInOrder ==
    canvas.painted =>
        \A k \in 1..(Len(canvas.ops) - 1) :
            layerRank(canvas.ops[k].layer) <= layerRank(canvas.ops[k + 1].layer)

C6_Witness ==
    /\ canvas.painted
    /\ \A layer \in {"grid", "futureCloud", "historicalCloud", "lines", "candles", "markers",
                     "priceLine"} : Len(layerOps(layer)) > 0

\* C7: indexToX steps by chartWidth / N from bar to bar, N being the candle
\* count plus 26 with the indicators shown and the candle count otherwise;
\* the last and the first centre are chartWidth * (N - 1) / N apart and every
\* bar centre, drawn ones included, lies within the horizontal chart area
C7_IndexToXAffine ==
    canvas.painted =>
        LET f == canvas.frame
            N == Len(chartCandles) + (IF showIchimoku THEN 26 ELSE 0)
            within(x) == /\ x.n >= chartPadding.left * x.d
                         /\ x.n <= (chartPadding.left + f.chartWidth) * x.d
        IN  /\ f.totalBars = N
            /\ \A i \in 0..(N - 1) : indexToX(f, i).d = 2 * N /\ within(indexToX(f, i))
            /\ \A i \in 0..(N - 2) : indexToX(f, i + 1).n - indexToX(f, i).n = 2 * f.chartWidth
            /\ indexToX(f, N - 1).n - indexToX(f, 0).n = 2 * f.chartWidth * (N - 1)
            /\ \A k \in 1..Len(canvas.ops) :
                canvas.ops[k].kind \in {"fillRect", "wick", "body"} =>
                    /\ canvas.ops[k].i < N
                    /\ within(canvas.ops[k].x)

C7_Witness ==
    /\ canvas.painted
    /\ showIchimoku
    /\ canvas.frame.width = 400
    /\ Len(layerOps("futureCloud")) = 26
    /\ layerOps("futureCloud")[26].i = canvas.frame.totalBars - 1

\* C8: with fewer than 52 candles or the toggle off the indicator set and the
\* future cloud are empty and the signal is null; a pass over such inputs
\* paints the grid, the candles, the markers and the price line and nothing
\* of the overlay layers
C8_NoOverlaysWithoutIndicators ==
    (Len(chartCandles) < 52 \/ ~showIchimoku) =>
        /\ ichimokuData = <<>>
        /\ futureCloud = <<>>
        /\ ichimokuSignal = Null
        /\ Len(chartCandles) > 0 =>
            /\ canvas.painted
            /\ canvas.ops = drawGrid(canvas.frame) \o drawCandles(canvas.frame, chartCandles)
                            \o drawMarkers(canvas.frame, chartSymbol, positions)
                            \o drawPriceLine(canvas.frame, chartCandles, realtimePrice, ticker,
                                             realtime.connected)
            /\ Len(layerOps("grid")) = 12
            /\ Len(layerOps("candles")) = 2 * Len(chartCandles)
            /\ \A layer \in {"futureCloud", "historicalCloud", "lines"} : Len(layerOps(layer)) = 0

C8_Witness ==
    /\ ~showIchimoku
    /\ Len(chartCandles) >= 52
    /\ canvas.painted
    /\ Len(layerOps("markers")) > 0
    /\ Len(layerOps("priceLine")) > 0

\* C9: wherever the cloud is computed cloudTop >= cloudBottom, and no
\* historical cloud rectangle painted has a negative height
C9_CloudHeightNeverNegative ==
    /\ \A k \in 1..Len(ichimokuData) :
        ichimokuData[k].cloudTop # Null => ichimokuData[k].cloudTop[1] >= ichimokuData[k].cloudBottom[1]
    /\ canvas.painted =>
        \A k \in 1..Len(canvas.ops) :
            canvas.ops[k].layer = "historicalCloud" =>
                canvas.ops[k].h.n >= 0 /\ ~isNaN(canvas.ops[k].h)

C9_Witness ==
    /\ canvas.painted
    /\ \E k \in 1..Len(canvas.ops) :
        /\ canvas.ops[k].layer = "historicalCloud"
        /\ canvas.ops[k].prices[1] > canvas.ops[k].prices[2]
        /\ canvas.ops[k].h.n > 0

\* the bars (from 0) at which a line or the cloud was painted
paintedBars(line) ==
    LET strokes == SelectSeq(canvas.ops, LAMBDA o : o.layer = "lines" /\ o.line = line)
    IN  { strokes[1].points[k].i : k \in 1..Len(strokes[1].points) }

\* C10: with at least 52 candles the indicator set has one record per candle;
\* each value is null or a number, null exactly while its window is not yet
\* filled, and the renderer paints exactly the bars whose value is not null
C10_OneRecordPerCandle ==
    (Len(chartCandles) >= 52 /\ showIchimoku) =>
        LET n   == Len(chartCandles)
            cfg == DEFAULT_ICHIMOKU_CONFIG
            nullable(v) == v = Null \/ (Len(v) = 1 /\ v[1] \in Int)
        IN  /\ Len(ichimokuData) = n
            /\ \A k \in 1..n :
                /\ nullable(ichimokuData[k].tenkanSen) /\ nullable(ichimokuData[k].kijunSen)
                /\ nullable(ichimokuData[k].cloudTop) /\ nullable(ichimokuData[k].cloudBottom)
                /\ ichimokuData[k].tenkanSen = Null <=> k < cfg.conversionPeriod
                /\ ichimokuData[k].kijunSen = Null <=> k < cfg.basePeriod
                /\ ichimokuData[k].cloudTop = Null <=> k < cfg.leadingSpanBPeriod + cfg.displacement
                /\ ichimokuData[k].cloudBottom = Null <=> ichimokuData[k].cloudTop = Null
                /\ ichimokuData[k].chikouSpan = Some(chartCandles[k].close)
            /\ canvas.painted
            /\ paintedBars("tenkanSen") = { k - 1 : k \in { j \in 1..n : ichimokuData[j].tenkanSen # Null } }
            /\ paintedBars("kijunSen") = { k - 1 : k \in { j \in 1..n : ichimokuData[j].kijunSen # Null } }
            /\ { layerOps("historicalCloud")[k].i : k \in 1..Len(layerOps("historicalCloud")) }
                = { k - 1 : k \in { j \in 1..n : ichimokuData[j].cloudTop # Null } }

C10_Witness ==
    /\ Len(chartCandles) > 52
    /\ showIchimoku
    /\ ichimokuData[1].tenkanSen = Null
    /\ ichimokuData[Len(chartCandles)].cloudTop # Null
    /\ Len(layerOps("historicalCloud")) > 0

(***************************************************************************)
(* Signal analyzer over every combination of its conditions, and the badge *)
(* the chart shows for a signal (trading-chart.tsx).                       *)
(***************************************************************************)
Votes == {-1, 0, 1}

ConditionFlags == [cloud : Votes, cross : Votes, color : Votes, chikou : Votes]

\* String.prototype.replace(ch, by): the first occurrence only
replaceFirstWith(str, ch, by) ==
    LET hits == { i \in 1..Len(str) : str[i] = ch }
    IN  IF hits = {} THEN str
        ELSE LET first == CHOOSE i \in hits : \A j \in hits : i <= j
             IN  [i \in 1..Len(str) |-> IF i = first THEN by ELSE str[i]]

\* the characters of a signal type
typeChars(type) ==
    CASE type = "strong_buy"  -> <<"s", "t", "r", "o", "n", "g", "_", "b", "u", "y">>
      [] type = "buy"         -> <<"b", "u", "y">>
      [] type = "strong_sell" -> <<"s", "t", "r", "o", "n", "g", "_", "s", "e", "l", "l">>
      [] type = "sell"        -> <<"s", "e", "l", "l">>
      [] OTHER                -> <<"n", "e", "u", "t", "r", "a", "l">>

\* {showIchimoku && ichimokuSignal && (...)}: null when nothing is shown
signalBadge(show, sig) ==
    IF ~show \/ sig = Null THEN Null
    ELSE Some([tone  |-> IF sig[1].type \in {"strong_buy", "buy"} THEN "green"
                         ELSE IF sig[1].type \in {"strong_sell", "sell"} THEN "red"
                         ELSE "gray",
               icon  |-> IF includes(typeChars(sig[1].type), <<"b", "u", "y">>) THEN "TrendingUp"
                         ELSE IF includes(typeChars(sig[1].type), <<"s", "e", "l", "l">>) THEN "TrendingDown"
                         ELSE "Minus",
               label |-> toUpperCase(replaceFirstWith(typeChars(sig[1].type), "_", " ")),
               confidence |-> sig[1].confidence])

SignalInit ==
    /\ conditions \in ConditionFlags
    /\ signal = Null
    /\ FeedIdle
    /\ AggrIdle
    /\ ChartUnmounted
    /\ PanelIdle
    /\ EndpointIdle
    /\ ChatIdle
    /\ ScraperIdle
    /\ StoreIdle
    /\ AssistantIdle
    /\ StreamIdle
    /\ PollerIdle

\* the analyzer derives the signal of the conditions
Analyze ==
    /\ signal = Null
    /\ signal' = Some(signalOf(conditions))
    /\ UNCHANGED <<conditions, notSignal>>

\* the market moves on: other conditions, not analyzed yet
ConditionsChange ==
    /\ signal # Null
    /\ \E c \in ConditionFlags :
        /\ c # conditions
        /\ conditions' = c
    /\ signal' = Null
    /\ UNCHANGED notSignal

SignalNext == Analyze \/ ConditionsChange

SpecSignal == SignalInit /\ [][SignalNext]_vars

mirrored(votes) ==
    [cloud |-> -votes.cloud, cross |-> -votes.cross, color |-> -votes.color, chikou |-> -votes.chikou]

mirroredType(type) ==
    CASE type = "strong_buy" -> "strong_sell"
      [] type = "buy" -> "sell"
      [] type = "sell" -> "buy"
      [] type = "strong_sell" -> "strong_buy"
      [] OTHER -> "neutral"

\* C11: whatever the conditions, the confidence of the derived signal lies in
\* [0, 100]; the type is strong_buy or strong_sell exactly from 75 on, buy or
\* sell from 50 on and neutral below; the mirrored conditions give the
\* mirrored type with the same confidence
C11_ConfidenceBoundedAndTyped ==
    signal # Null =>
        LET sig == signal[1]
            opp == signalOf(mirrored(conditions))
        IN  /\ sig.confidence >= 0 /\ sig.confidence <= 100
            /\ sig.type \in {"strong_buy", "strong_sell"} <=> sig.confidence >= 75
            /\ sig.type \in {"buy", "sell"} <=> (sig.confidence >= 50 /\ sig.confidence < 75)
            /\ sig.type = "neutral" <=> sig.confidence < 50
            /\ opp.confidence = sig.confidence
            /\ opp.type = mirroredType(sig.type)
            /\ signalBadge(TRUE, signal)[1].confidence = sig.confidence

C11_Witness ==
    /\ conditions = [cloud |-> -1, cross |-> -1, color |-> -1, chikou |-> -1]
    /\ signal = Some([type |-> "strong_sell", confidence |-> 100])
    /\ signalBadge(TRUE, signal)[1].label = <<"S", "T", "R", "O", "N", "G", " ", "S", "E", "L", "L">>

(***************************************************************************)
(* Properties of the chart: chikou line and candles.                       *)
(***************************************************************************)
\* the points of the chikou line as painted, in path order
chikouPoints ==
    SelectSeq(canvas.ops, LAMBDA o : o.layer = "lines" /\ o.line = "chikouSpan")[1].points

\* C12: the chikou line has one point for every bar i with 0 <= i < count - 26,
\* the point of bar i is the close of candle i + 26, and every candle index
\* read for it lies in 0..count - 1
C12_ChikouDisplacedBy26 ==
    (canvas.painted /\ Len(layerOps("lines")) > 0) =>
        LET n == Len(chartCandles)
        IN  /\ \A k \in 1..Len(chikouReads(chartCandles)) :
                chikouReads(chartCandles)[k] \in 0..(n - 1)
            /\ Len(chikouPoints) = n - 26
            /\ \A k \in 1..Len(chikouPoints) :
                /\ chikouPoints[k].i = k - 1
                /\ chikouPoints[k].price = chartCandles[(k - 1) + 26 + 1].close
                /\ chikouPoints[k].y = priceToY(canvas.frame, chartCandles[(k - 1) + 26 + 1].close)

C12_Witness ==
    /\ canvas.painted
    /\ Len(layerOps("lines")) > 0
    /\ Len(chartCandles) = MaxCandles
    /\ Len(chikouPoints) = MaxCandles - 26
    /\ chikouPoints[1].price # chikouPoints[2].price

\* C18: every candle is painted green exactly when close >= open and red
\* otherwise; its wick runs from the Y of its high to the Y of its low; its
\* body starts at the upper of the Ys of open and close and is
\* max(|yClose - yOpen|, 1) high, 1 pixel when open = close
C18_CandleColourWickBody ==
    canvas.painted =>
        LET ops == layerOps("candles")
            f   == canvas.frame
        IN  /\ Len(ops) = 2 * Len(chartCandles)
            /\ \A k \in 1..Len(chartCandles) :
                LET c      == chartCandles[k]
                    wick   == ops[2 * k - 1]
                    body   == ops[2 * k]
                    colour == IF c.close >= c.open THEN "green" ELSE "red"
                    yOpen  == priceToY(f, c.open)
                    yClose == priceToY(f, c.close)
                    diff   == IF yClose.n >= yOpen.n THEN yClose.n - yOpen.n ELSE yOpen.n - yClose.n
                IN  /\ wick.kind = "wick" /\ wick.color = colour
                    /\ wick.y = priceToY(f, c.high) /\ wick.yEnd = priceToY(f, c.low)
                    /\ body.kind = "body" /\ body.color = colour
                    /\ body.y = (IF yOpen.n <= yClose.n THEN yOpen ELSE yClose)
                    /\ body.h.d # 0
                    /\ IF diff < f.chartPriceRange THEN body.h.n = body.h.d
                       ELSE body.h.n * f.chartPriceRange = diff * body.h.d
                    /\ c.open = c.close => body.h.n = body.h.d

(***************************************************************************)
(* Polling components: OrderBook (chart/order-book.tsx), useLivePrices     *)
(* (hooks/use-live-prices.ts) and the ticker of CenterPanel                *)
(* (center-panel.tsx).                                                     *)
(* A JavaScript value of a response is a record [t, n, s, items]: its type *)
(* t, and its number n, string s or array items.                           *)
(***************************************************************************)
jsValue(t, n, str, items) == [t |-> t, n |-> n, s |-> str, items |-> items]
jsUndefined == jsValue("undefined", 0, "", <<>>)
jsNaN == jsValue("NaN", 0, "", <<>>)
jsNumber(n) == jsValue("number", n, "", <<>>)
jsString(str) == jsValue("string", 0, str, <<>>)
jsArray(items) == jsValue("array", 0, "", items)

\* what `v || d` and `if (v)` take for true
truthy(v) ==
    \/ v.t = "array"
    \/ v.t = "number" /\ v.n # 0
    \/ v.t = "string" /\ v.s # ""

\* a + b and a - b of numbers; undefined or NaN on either side gives NaN
jsPlus(a, b) == IF a.t = "number" /\ b.t = "number" THEN jsNumber(a.n + b.n) ELSE jsNaN
jsMinus(a, b) == IF a.t = "number" /\ b.t = "number" THEN jsNumber(a.n - b.n) ELSE jsNaN

\* the outcome of a piece of code: it returned a value or threw a message
returned(value) == [threw |-> FALSE, message |-> "", value |-> value]
thrown(message) == [threw |-> TRUE, message |-> message, value |-> <<>>]

\* fetch() rejected, or resolved with a status and a body that parses as JSON or not
rejected(message) == [kind |-> "rejected", message |-> message, ok |-> FALSE, parsable |-> FALSE,
                      body |-> <<>>]
answered(ok, body) == [kind |-> "answered", message |-> "", ok |-> ok, parsable |-> TRUE,
                       body |-> body]
answeredNoJson(ok) == [kind |-> "answered", message |-> "", ok |-> ok, parsable |-> FALSE,
                       body |-> <<>>]

\* response.json() of a body that is no JSON rejects with the parser's message
JSON_SYNTAX_ERROR == "Unexpected token < in JSON at position 0"

LEVELS_TO_SHOW == 6

RECURSIVE runningTotal(_, _)
\* askTotal += level.size over the first k levels, from 0
runningTotal(levels, k) ==
    IF k = 0 THEN jsNumber(0) ELSE jsPlus(runningTotal(levels, k - 1), levels[k].size)

Reverse(seq) == [i \in 1..Len(seq) |-> seq[Len(seq) + 1 - i]]

\* no slice: every level the response carries
takeAllLevels(v) ==
    IF ~truthy(v) THEN returned(<<>>)
    ELSE IF v.t # "array" THEN thrown("(intermediate value).slice(...).map is not a function")
    ELSE returned([k \in 1..Len(v.items) |->
                    [price |-> v.items[k].price, size |-> v.items[k].size,
                     total |-> runningTotal(v.items, k)]])

\* (v || []).slice(0, LEVELS_TO_SHOW).map(level => ({price, size, total}))
takeLevels(v) ==
    IF ~truthy(v) THEN returned(<<>>)
    ELSE IF v.t # "array" THEN thrown("(intermediate value).slice(...).map is not a function")
    ELSE LET levels == slice0(v.items, LEVELS_TO_SHOW)
         IN  returned([k \in 1..Len(levels) |->
                        [price |-> levels[k].price, size |-> levels[k].size,
                         total |-> runningTotal(levels, k)]])

\* the body of the try block of fetchOrderBook after response.json()
processOrderBook(body, now) ==
    IF truthy(body.error) THEN thrown(body.error.s)
    ELSE LET asks == takeLevels(body.asks)
             bids == takeLevels(body.bids)
         IN  IF asks.threw THEN asks
             ELSE IF bids.threw THEN bids
             ELSE returned([asks |-> Reverse(asks.value), bids |-> bids.value,
                            timestamp |-> IF truthy(body.timestamp) THEN body.timestamp
                                          ELSE jsNumber(now)])

\* the three states a fetch handler sets
panelState(data, error, loading) == [data |-> data, error |-> error, loading |-> loading]

\* catch (err) { setError(err.message) }: the data is not touched
caught(state, message) == panelState(state.data, Some(message), FALSE)

\* fetchOrderBook from the answer on: the status of the response is not looked at
fetchOrderBook(state, resp, now) ==
    IF resp.kind = "rejected" THEN caught(state, resp.message)
    ELSE IF ~resp.parsable THEN caught(state, JSON_SYNTAX_ERROR)
    ELSE LET out == processOrderBook(resp.body, now)
         IN  IF out.threw THEN caught(state, out.message)
             ELSE panelState(Some(out.value), Null, FALSE)

\* useTradingStore().markets
markets == << [symbol |-> BTCUSDT, price |-> 4000], [symbol |-> ETHUSDT, price |-> 200] >>

\* markets.find(m => m.symbol === symbol)?.price || 0
storePrice(symbol) ==
    LET found == SelectSeq(markets, LAMBDA m : m.symbol = symbol)
    IN  IF Len(found) = 0 THEN 0 ELSE found[1].price

\* useMemo: asks[0]?.total and bids[last]?.total, `|| 0` each, the larger
maxTotal(book) ==
    IF book = Null THEN jsNumber(0)
    ELSE LET orZero(v) == IF truthy(v) THEN v ELSE jsNumber(0)
             a == orZero(IF Len(book[1].asks) = 0 THEN jsUndefined ELSE book[1].asks[1].total)
             b == orZero(IF Len(book[1].bids) = 0 THEN jsUndefined
                         ELSE book[1].bids[Len(book[1].bids)].total)
         IN  IF a.n >= b.n THEN a ELSE b

\* useMemo: 0 without a book or with an empty side, else last ask - first bid
spread(book) ==
    IF book = Null \/ Len(book[1].asks) = 0 \/ Len(book[1].bids) = 0 THEN jsNumber(0)
    ELSE jsMinus(book[1].asks[Len(book[1].asks)].price, book[1].bids[1].price)

\* useMemo: the store price without a book or with an empty side, else the
\* average of last ask and first bid, kept as the fraction n / d
midPrice(book, symbol) ==
    IF book = Null \/ Len(book[1].asks) = 0 \/ Len(book[1].bids) = 0
    THEN [t |-> "number", n |-> storePrice(symbol), d |-> 1]
    ELSE LET sum == jsPlus(book[1].asks[Len(book[1].asks)].price, book[1].bids[1].price)
         IN  [t |-> sum.t, n |-> sum.n, d |-> 2]

\* what OrderBook returns; `x.toFixed()` of an undefined x throws a TypeError
orderBookView(book, error, loading, symbol) ==
    IF loading /\ book = Null THEN [kind |-> "spinner", text |-> ""]
    ELSE IF error # Null /\ book = Null THEN [kind |-> "error", text |-> error[1]]
    ELSE IF book = Null THEN [kind |-> "nothing", text |-> ""]
    ELSE LET rows == book[1].asks \o book[1].bids
         IN  IF \E k \in 1..Len(rows) :
                    \E v \in {rows[k].price, rows[k].size, rows[k].total} : v.t \notin {"number", "NaN"}
             THEN [kind |-> "threw", text |-> "Cannot read properties of undefined (reading 'toFixed')"]
             ELSE [kind |-> "book", text |-> "", asks |-> book[1].asks, bids |-> book[1].bids,
                   spread |-> spread(book), midPrice |-> midPrice(book, symbol),
                   maxTotal |-> maxTotal(book)]

\* `for (const market of data.markets) priceMap[market.symbol] = {...}`: one
\* entry per market, in the order of the response
processMarkets(body) ==
    IF body.markets.t # "array" THEN thrown("data.markets is not iterable")
    ELSE returned([k \in 1..Len(body.markets.items) |->
                    LET market == body.markets.items[k]
                    IN  [symbol |-> market.symbol, price |-> market.price,
                         change24h |-> market.change24h, high24h |-> market.high24h,
                         low24h |-> market.low24h, volume24h |-> market.volume24h]])

\* fetchPrices from the answer on; the data is the price map with lastUpdate
fetchPrices(state, resp, now) ==
    IF resp.kind = "rejected" THEN caught(state, resp.message)
    ELSE IF ~resp.ok THEN caught(state, "Failed to fetch prices")
    ELSE IF ~resp.parsable THEN caught(state, JSON_SYNTAX_ERROR)
    ELSE LET out == processMarkets(resp.body)
         IN  IF out.threw THEN caught(state, out.message)
             ELSE panelState(Some([prices |-> out.value, lastUpdate |-> jsNumber(now)]), Null, FALSE)

\* fetchTicker from the answer on: CenterPanel keeps no error state
fetchTicker(state, resp, now) ==
    IF resp.kind = "rejected" \/ ~resp.ok \/ ~resp.parsable
    THEN panelState(state.data, state.error, FALSE)
    ELSE panelState(Some([symbol |-> resp.body.symbol, last |-> resp.body.last,
                          high |-> resp.body.high, low |-> resp.body.low,
                          volume |-> resp.body.volume, change |-> resp.body.change,
                          percentage |-> resp.body.percentage]),
                    state.error, FALSE)

\* the chart header of CenterPanel: toFixed and toLocaleString of an undefined
\* field throw, undefined / 1e6 is NaN and prints
tickerView(tick, loading) ==
    IF tick = Null THEN [kind |-> IF loading THEN "spinner" ELSE "nothing", text |-> ""]
    ELSE IF \E v \in {tick[1].percentage, tick[1].high, tick[1].low} : v.t \notin {"number", "NaN"}
    THEN [kind |-> "threw", text |-> "Cannot read properties of undefined (reading 'toFixed')"]
    ELSE [kind |-> "ticker", text |-> "", percentage |-> tick[1].percentage,
          high |-> tick[1].high, low |-> tick[1].low,
          volume |-> IF tick[1].volume.t = "number" THEN tick[1].volume ELSE jsNaN]

\* what the hook returns to its callers
pricesView(data, error, loading) ==
    [kind |-> "prices", text |-> IF error = Null THEN "" ELSE error[1],
     prices |-> data[1].prices, loading |-> loading]

\* the state a component starts with
mountedState(kind) ==
    IF kind = "prices" THEN panelState(Some([prices |-> <<>>, lastUpdate |-> jsUndefined]), Null, TRUE)
    ELSE panelState(Null, Null, TRUE)

\* the answer to the fetch `req` is handled only if req is for the symbol shown now
deliverCurrentOnly(kind, state, req, current, resp, now) ==
    IF kind # "prices" /\ req.symbol # current THEN state
    ELSE CASE kind = "orderbook" -> fetchOrderBook(state, resp, now)
           [] kind = "prices"    -> fetchPrices(state, resp, now)
           [] OTHER              -> fetchTicker(state, resp, now)

\* the answer to the fetch `req` is handled by the callback that issued it,
\* whatever was issued or answered since and whatever symbol is shown now
deliver(kind, state, req, current, resp, now) ==
    CASE kind = "orderbook" -> fetchOrderBook(state, resp, now)
      [] kind = "prices"    -> fetchPrices(state, resp, now)
      [] OTHER              -> fetchTicker(state, resp, now)

\* what the mounted component renders
panelView(kind, data, error, loading, symbol) ==
    CASE kind = "orderbook" -> orderBookView(data, error, loading, symbol)
      [] kind = "prices"    -> pricesView(data, error, loading)
      [] OTHER              -> tickerView(data, loading)

(***************************************************************************)
(* Inputs of the polling components: what /api/market may answer.          *)
(***************************************************************************)
\* fetches one component issues
MaxFetches == 3
\* fetches of one component in flight at a time
MaxInFlight == 2
\* levels per side the exchange reports
BookDepth == 8

level(price, size) == [price |-> jsNumber(price), size |-> jsNumber(size)]

\* best ask first, ascending; best bid first, descending
askLevels(symbol, n) == [k \in 1..n |-> level(storePrice(symbol) + 2 * k, k)]
bidLevels(symbol, n) == [k \in 1..n |-> level(storePrice(symbol) - k, 2 * k)]

orderBookBody(error, asks, bids, timestamp) ==
    [error |-> error, asks |-> asks, bids |-> bids, timestamp |-> timestamp]

errorBookBody == orderBookBody(jsString("Exchange unavailable"), jsUndefined, jsUndefined, jsUndefined)
emptyBookBody == orderBookBody(jsUndefined, jsUndefined, jsUndefined, jsUndefined)

\* a full book, a book with asks only, a body without asks and bids, an error
\* body, a book with a level that has no size, a body whose asks are no array
OrderBookBodies(symbol) ==
    { orderBookBody(jsUndefined, jsArray(askLevels(symbol, BookDepth)),
                    jsArray(bidLevels(symbol, BookDepth)), jsNumber(1700)),
      orderBookBody(jsUndefined, jsArray(askLevels(symbol, 2)), jsUndefined, jsNumber(1700)),
      emptyBookBody,
      errorBookBody,
      orderBookBody(jsUndefined,
                    jsArray(<< [price |-> jsNumber(storePrice(symbol) + 2), size |-> jsUndefined] >>),
                    jsArray(bidLevels(symbol, 1)), jsNumber(1700)),
      orderBookBody(jsUndefined, jsNumber(5), jsArray(bidLevels(symbol, 1)), jsNumber(1700)) }

marketOf(symbol, volume24h) ==
    [symbol |-> jsString(IF symbol = BTCUSDT THEN "BTCUSDT" ELSE "ETHUSDT"),
     price |-> jsNumber(storePrice(symbol)), change24h |-> jsNumber(1),
     high24h |-> jsNumber(storePrice(symbol) + 10), low24h |-> jsNumber(storePrice(symbol) - 10),
     volume24h |-> volume24h]

marketsBody(error, list) == [error |-> error, markets |-> list]

errorMarketsBody == marketsBody(jsString("Exchange unavailable"), jsUndefined)

\* two markets, one market without volume, a body without markets, an error body
MarketsBodies ==
    { marketsBody(jsUndefined, jsArray(<< marketOf(BTCUSDT, jsNumber(900)), marketOf(ETHUSDT, jsNumber(300)) >>)),
      marketsBody(jsUndefined, jsArray(<< marketOf(BTCUSDT, jsUndefined) >>)),
      marketsBody(jsUndefined, jsUndefined),
      errorMarketsBody }

tickerBody(symbol, last, volume, percentage) ==
    [error |-> jsUndefined,
     symbol |-> jsString(IF symbol = BTCUSDT THEN "BTCUSDT" ELSE "ETHUSDT"), last |-> last,
     high |-> jsNumber(storePrice(symbol) + 10), low |-> jsNumber(storePrice(symbol) - 10),
     volume |-> volume, change |-> jsNumber(3), percentage |-> percentage]

errorTickerBody ==
    [error |-> jsString("Exchange unavailable"), symbol |-> jsUndefined, last |-> jsUndefined,
     high |-> jsUndefined, low |-> jsUndefined, volume |-> jsUndefined, change |-> jsUndefined,
     percentage |-> jsUndefined]

\* a full ticker, one without volume, one without percentage, an error body
TickerBodies(symbol) ==
    { tickerBody(symbol, jsNumber(storePrice(symbol)), jsNumber(5000000), jsNumber(2)),
      tickerBody(symbol, jsNumber(storePrice(symbol)), jsUndefined, jsNumber(2)),
      tickerBody(symbol, jsNumber(storePrice(symbol)), jsNumber(5000000), jsUndefined),
      errorTickerBody }

\* what may come back for a fetch of `kind` for `symbol`
Responses(kind, symbol) ==
    {rejected("Failed to fetch"), answeredNoJson(FALSE)}
    \cup (CASE kind = "orderbook" ->
                { answered(TRUE, b) : b \in OrderBookBodies(symbol) }
                \cup { answered(FALSE, errorBookBody), answered(FALSE, emptyBookBody) }
            [] kind = "prices" ->
                { answered(TRUE, b) : b \in MarketsBodies } \cup { answered(FALSE, errorMarketsBody) }
            [] OTHER ->
                { answered(TRUE, b) : b \in TickerBodies(symbol) }
                \cup { answered(FALSE, errorTickerBody) })

PanelSymbols == {BTCUSDT, ETHUSDT}

\* the callback is called: one more fetch in flight, for the symbol shown now
issueFetch(symbol) ==
    /\ issued < MaxFetches
    /\ Cardinality(inFlight) < MaxInFlight
    /\ issued' = issued + 1
    /\ inFlight' = inFlight \cup {[id |-> issued + 1, symbol |-> symbol]}

\* a component is mounted: its effect calls the fetch callback at once
PanelInit ==
    /\ panel \in {"orderbook", "prices", "ticker"}
    /\ panelSymbol = IF panel = "prices" THEN <<>> ELSE BTCUSDT
    /\ panelData = mountedState(panel).data
    /\ panelError = mountedState(panel).error
    /\ panelLoading = mountedState(panel).loading
    /\ inFlight = {[id |-> 1, symbol |-> panelSymbol]}
    /\ issued = 1
    /\ lastResponse = Null
    /\ FeedIdle
    /\ AggrIdle
    /\ ChartUnmounted
    /\ SignalIdle
    /\ EndpointIdle
    /\ ChatIdle
    /\ ScraperIdle
    /\ StoreIdle
    /\ AssistantIdle
    /\ StreamIdle
    /\ PollerIdle

\* setInterval fires
PollTick ==
    /\ issueFetch(panelSymbol)
    /\ UNCHANGED <<panel, panelSymbol, panelData, panelError, panelLoading, lastResponse, notPanel>>

\* the symbol changes: the effect clears the interval, fetches for the new
\* symbol and starts a new interval; fetches in flight stay in flight
SwitchSymbol ==
    /\ panel # "prices"
    /\ \E symbol \in PanelSymbols :
        /\ symbol # panelSymbol
        /\ panelSymbol' = symbol
        /\ issueFetch(symbol)
    /\ UNCHANGED <<panel, panelData, panelError, panelLoading, lastResponse, notPanel>>

\* the answer to one of the fetches in flight arrives, in any order
Respond ==
    /\ \E req \in inFlight :
        \E resp \in Responses(panel, req.symbol) :
            LET after == deliver(panel, panelState(panelData, panelError, panelLoading), req,
                                 panelSymbol, resp, 1000 + issued)
            IN  /\ panelData' = after.data
                /\ panelError' = after.error
                /\ panelLoading' = after.loading
                /\ inFlight' = inFlight \ {req}
                /\ lastResponse' = Some([req |-> req, resp |-> resp, shown |-> panelSymbol,
                                         data |-> panelData, error |-> panelError])
    /\ UNCHANGED <<panel, panelSymbol, issued, notPanel>>

PanelNext == PollTick \/ SwitchSymbol \/ Respond

SpecPanels == PanelInit /\ [][PanelNext]_vars

(***************************************************************************)
(* Properties of the polling components.                                   *)
(***************************************************************************)
\* the answer handled last reports a failure: no answer, a non-OK status, a
\* body that is no JSON, or a body with an error field
failedFetch(resp) ==
    \/ resp.kind = "rejected"
    \/ ~resp.ok
    \/ ~resp.parsable
    \/ truthy(resp.body.error)

\* the fields the handler of `kind` reads as arrays are arrays
wellFormed(kind, body) ==
    CASE kind = "orderbook" -> body.asks.t = "array" /\ body.bids.t = "array"
                               /\ \A k \in 1..Len(body.asks.items) : body.asks.items[k].size.t = "number"
      [] kind = "prices"    -> body.markets.t = "array"
      [] OTHER              -> TRUE

\* C13: after a failed order-book or live-price fetch the error string is the
\* failure message (the response's error field when it has one), the data
\* held before is still held and displayed; after a successful fetch the
\* error is null
C13_StaleWhileError ==
    (lastResponse # Null /\ panel \in {"orderbook", "prices"}) =>
        LET resp == lastResponse[1].resp
        IN  /\ failedFetch(resp) =>
                /\ panelError # Null
                /\ (resp.parsable /\ truthy(resp.body.error)) => panelError = Some(resp.body.error.s)
                /\ panelData = lastResponse[1].data
                /\ (panel = "orderbook" /\ lastResponse[1].data # Null) =>
                        panelView(panel, panelData, panelError, panelLoading, panelSymbol).kind # "error"
            /\ (~failedFetch(resp) /\ wellFormed(panel, resp.body)) => panelError = Null

\* C14: after a successful response with a field absent or malformed the
\* state holds the default in its place (empty array, zero), the handler
\* has thrown nothing and the render throws nothing
C14_DefaultsForAbsentFields ==
    (lastResponse # Null /\ ~failedFetch(lastResponse[1].resp)) =>
        LET body == lastResponse[1].resp.body
            orZero(v) == v = jsNumber(0) \/ v.t = "number"
        IN  /\ panelError = Null
            /\ panelData # Null
            /\ panelView(panel, panelData, panelError, panelLoading, panelSymbol).kind # "threw"
            /\ panel = "orderbook" =>
                /\ body.asks.t # "array" => panelData[1].asks = <<>>
                /\ body.bids.t # "array" => panelData[1].bids = <<>>
            /\ panel = "prices" =>
                /\ body.markets.t # "array" => panelData[1].prices = <<>>
                /\ \A k \in 1..Len(panelData[1].prices) : orZero(panelData[1].prices[k].volume24h)
            /\ panel = "ticker" =>
                \A v \in {panelData[1].last, panelData[1].high, panelData[1].low,
                          panelData[1].volume, panelData[1].percentage} : orZero(v)

\* C15: an answer is handled whenever it arrives: the answer to a fetch that
\* a later fetch has superseded, or that was issued for a symbol no longer
\* shown, overwrites the state of the panel like any other
C15_LastArrivalOverwrites ==
    (/\ lastResponse # Null
     /\ panel \in {"orderbook", "ticker"}
     /\ ~failedFetch(lastResponse[1].resp)
     /\ wellFormed(panel, lastResponse[1].resp.body)) =>
        LET resp == lastResponse[1].resp
        IN  /\ panelData # Null
            /\ panel = "orderbook" =>
                /\ panelData[1].asks = processOrderBook(resp.body, 0).value.asks
                /\ panelData[1].bids = processOrderBook(resp.body, 0).value.bids
            /\ panel = "ticker" =>
                panelData = fetchTicker(mountedState(panel), resp, 0).data

\* the answer to the first fetch (BTCUSDT) arrived after the answer to the
\* second (ETHUSDT): ETHUSDT is shown, nothing is in flight and the panel
\* holds the book of BTCUSDT
C15_Witness ==
    /\ panel = "orderbook"
    /\ panelSymbol = ETHUSDT
    /\ inFlight = {}
    /\ issued = 2
    /\ lastResponse # Null
    /\ lastResponse[1].req = [id |-> 1, symbol |-> BTCUSDT]
    /\ lastResponse[1].data # Null
    /\ lastResponse[1].data[1].asks # <<>>
    /\ lastResponse[1].data[1].asks[1].price.n < 1000
    /\ panelData # Null
    /\ Len(panelData[1].asks) = LEVELS_TO_SHOW
    /\ \A k \in 1..LEVELS_TO_SHOW : panelData[1].asks[k].price.n > storePrice(BTCUSDT)

\* the levels of one side of a response: none when the side is absent
sideOf(v) == IF v.t = "array" THEN v.items ELSE <<>>

\* a side of a response is absent or a list of levels with price and size
sideUsable(v) ==
    /\ v.t \in {"array", "undefined"}
    /\ \A k \in 1..Len(sideOf(v)) :
            sideOf(v)[k].price.t = "number" /\ sideOf(v)[k].size.t = "number"

\* C19: after a successful order-book fetch each side holds the first
\* LEVELS_TO_SHOW levels of the response at most, each with the sum of the
\* sizes from the spread up to it; the asks are held in reverse, best ask
\* last; spread and mid price come from best ask and best bid, and are 0 and
\* the store price when a side is empty
C19_SixLevelsCumulativeFromSpread ==
    (/\ panel = "orderbook"
     /\ lastResponse # Null
     /\ ~failedFetch(lastResponse[1].resp)
     /\ sideUsable(lastResponse[1].resp.body.asks)
     /\ sideUsable(lastResponse[1].resp.body.bids)) =>
        LET inAsks == sideOf(lastResponse[1].resp.body.asks)
            inBids == sideOf(lastResponse[1].resp.body.bids)
            asks   == panelData[1].asks
            bids   == panelData[1].bids
            na     == Len(asks)
            view   == panelView(panel, panelData, panelError, panelLoading, panelSymbol)
        IN  /\ na = (IF Len(inAsks) < 6 THEN Len(inAsks) ELSE 6)
            /\ Len(bids) = (IF Len(inBids) < 6 THEN Len(inBids) ELSE 6)
            /\ \A k \in 1..na :
                    /\ asks[na + 1 - k].price = inAsks[k].price
                    /\ asks[na + 1 - k].size = inAsks[k].size
                    /\ asks[na + 1 - k].total.n = SumSeq([j \in 1..k |-> inAsks[j].size.n])
                    /\ asks[na].price.n <= asks[k].price.n
            /\ \A k \in 1..Len(bids) :
                    /\ bids[k].price = inBids[k].price
                    /\ bids[k].size = inBids[k].size
                    /\ bids[k].total.n = SumSeq([j \in 1..k |-> inBids[j].size.n])
                    /\ bids[1].price.n >= bids[k].price.n
            /\ view.kind = "book"
            /\ (na > 0 /\ Len(bids) > 0) =>
                    /\ view.spread = jsNumber(inAsks[1].price.n - inBids[1].price.n)
                    /\ view.midPrice = [t |-> "number", n |-> inAsks[1].price.n + inBids[1].price.n, d |-> 2]
            /\ (na = 0 \/ Len(bids) = 0) =>
                    /\ view.spread = jsNumber(0)
                    /\ view.midPrice = [t |-> "number", n |-> storePrice(panelSymbol), d |-> 1]

\* a book of BookDepth levels a side was answered and is held cut to
\* LEVELS_TO_SHOW levels a side, with a spread of 3
C19_Witness ==
    /\ panel = "orderbook"
    /\ lastResponse # Null
    /\ ~failedFetch(lastResponse[1].resp)
    /\ lastResponse[1].resp.body.asks.t = "array"
    /\ Len(lastResponse[1].resp.body.asks.items) = BookDepth
    /\ BookDepth > LEVELS_TO_SHOW
    /\ panelData # Null
    /\ Len(panelData[1].asks) = LEVELS_TO_SHOW
    /\ Len(panelData[1].bids) = LEVELS_TO_SHOW
    /\ panelData[1].asks[1].total.n = 21
    /\ panelView(panel, panelData, panelError, panelLoading, panelSymbol).spread = jsNumber(3)

(***************************************************************************)
(* Aggregated analytics endpoint, every action (hooks/index.ts GET).       *)
(* A directory that cannot be listed is like one that does not exist:      *)
(* fs.readdir rejects for both.  A file is [prefix, date, jsonl, readable, *)
(* lines]; its name is the prefix followed by the date.                    *)
(***************************************************************************)
\* files in the two directories together
MaxDataFiles == 2
\* lines in the files together
MaxRecords == 2

\* String.prototype.replace(sub, ''): removes the first occurrence of sub
removeFirst(str, sub) ==
    LET hits == { i \in 0..(Len(str) - Len(sub)) : SubSeq(str, i + 1, i + Len(sub)) = sub }
    IN  IF hits = {} THEN str
        ELSE LET i == CHOOSE h \in hits : \A j \in hits : h <= j
             IN  SubSeq(str, 1, i) \o SubSeq(str, i + Len(sub) + 1, Len(str))

\* the JSON of a record: a symbol (null when the field is missing), a time, a notional
RecordLine(symbol, timestamp, value_usd) ==
    [kind |-> "json", side |-> "buy", value_usd |-> value_usd, symbol |-> symbol,
     timestamp |-> timestamp]

RecordLines ==
    { MalformedLine,
      RecordLine(Some(<<"B", "T", "C", "U", "S", "D", "T">>), 10, 100),
      RecordLine(Some(<<"E", "T", "H", "U", "S", "D", "T">>), 20, 600000),
      RecordLine(Null, 30, 5) }

\* the order of file names: by prefix, then by date
nameKey(f) ==
    (CASE f.prefix = "aggr_training_" -> 0 [] f.prefix = "large_trades_" -> 1 [] OTHER -> 2) * 1000
    + f.date

\* items by descending key, items of equal key in their order
sortDesc(items, keys) ==
    LET n == Len(items)
        rank(i) == Cardinality({ j \in 1..n : keys[j] > keys[i] \/ (keys[j] = keys[i] /\ j < i) })
    IN  [k \in 1..n |-> items[CHOOSE i \in 1..n : rank(i) = k - 1]]

\* files.filter(f => f.startsWith(prefix)).sort().reverse()
mostRecentFirst(files, prefix) ==
    LET own == SelectSeq(files, LAMBDA f : f.prefix = prefix)
    IN  sortDesc(own, [i \in 1..Len(own) |-> nameKey(own[i])])

\* parseInt(searchParams.get('limit') || '50'): null is NaN
DEFAULT_LIMIT == 50

\* all.length >= limit, false for NaN
reached(all, limit) == limit # Null /\ Len(all) >= limit[1]

\* .slice(0, limit), [] for NaN
sliceLimit(all, limit) == IF limit = Null THEN <<>> ELSE slice0(all, limit[1])

\* for (const file of files) { if (all.length >= limit) break; all.push(...parse(file)) }
RECURSIVE collect(_, _, _, _)
collect(files, i, limit, all) ==
    IF i > Len(files) \/ reached(all, limit) THEN all
    ELSE collect(files, i + 1, limit, all \o parseJsonlFile(files[i]))

\* symbol.replace('/', '').replace('USDT', '')
baseOf(symbol) == removeFirst(replaceFirst(symbol, "/"), <<"U", "S", "D", "T">>)

\* the try block of getLargeTrades and getLiquidations
recentRecords(dir, prefix, limit, symbol) ==
    LET all == collect(mostRecentFirst(readdir(dir), prefix), 1, limit, <<>>)
    IN  IF symbol # NoSymbol /\ \E i \in 1..Len(all) : all[i].symbol = Null
        THEN thrown("Cannot read properties of undefined (reading 'includes')")
        ELSE LET kept == IF symbol = NoSymbol THEN all
                         ELSE SelectSeq(all, LAMBDA t : includes(t.symbol[1], baseOf(symbol)))
             IN  returned(sliceLimit(sortDesc(kept, [i \in 1..Len(kept) |-> kept[i].timestamp]),
                                     limit))

\* catch (error) { return [] }
orEmpty(out) == IF out.threw THEN <<>> ELSE out.value

getLargeTrades(dir, limit, symbol) == orEmpty(recentRecords(dir, "large_trades_", limit, symbol))

getLiquidations(dir, limit, symbol) == orEmpty(recentRecords(dir, "liquidations_", limit, symbol))

getTrainingExamples(dir, limit) ==
    sliceLimit(collect(mostRecentFirst(readdir(dir), "aggr_training_"), 1, limit, <<>>), limit)

\* the clock of the server, and 5 * 60 * 1000
NOW == 1000000
RUNNING_WINDOW == 300000

healthDefault == [isRunning |-> FALSE, lastDataTimestamp |-> Null, fileCount |-> 0]

\* checkScraperHealth: fs.stat of the file named last rejects (stat = null) or
\* gives its modification time
checkScraperHealth(dir, stat) ==
    LET dataFiles == SelectSeq(readdir(dir), LAMBDA f : f.jsonl)
    IN  IF Len(dataFiles) > 0 /\ stat = Null THEN healthDefault
        ELSE LET lastTimestamp == IF Len(dataFiles) > 0 THEN stat ELSE Null
             IN  [isRunning |-> IF lastTimestamp # Null
                                THEN NOW - lastTimestamp[1] < RUNNING_WINDOW ELSE FALSE,
                  lastDataTimestamp |-> lastTimestamp,
                  fileCount |-> Len(dataFiles)]

\* the switch of GET; none of the five functions lets an exception out
dispatch(action, limit, symbol, dir, training, stat) ==
    CASE action = "stats"        -> returned([status |-> 200, body |-> getAggrStats(dir)])
      [] action = "whales"       -> returned([status |-> 200, body |-> getLargeTrades(dir, limit, symbol)])
      [] action = "liquidations" -> returned([status |-> 200, body |-> getLiquidations(dir, limit, symbol)])
      [] action = "training"     -> returned([status |-> 200, body |-> getTrainingExamples(training, limit)])
      [] action = "health"       -> returned([status |-> 200, body |-> checkScraperHealth(dir, stat)])
      [] OTHER                   -> returned([status |-> 400,
                                              body |-> [error |-> "Invalid action. Use: stats, whales, liquidations, training, health"]])

\* GET: the response, 500 with the message when the switch threw
GET(action, limit, symbol, dir, training, stat) ==
    LET out == dispatch(action, limit, symbol, dir, training, stat)
    IN  IF out.threw THEN [status |-> 500, body |-> [error |-> out.message]] ELSE out.value

Limits == {Some(1), Null}
QuerySymbols == {NoSymbol, BTC_USDT}
\* fs.stat rejects, a file written a minute ago, a file written ten minutes ago
Stats == {Null, Some(NOW - 60000), Some(NOW - 600000)}

dataFile(prefix, date, jsonl, readable) ==
    [prefix |-> prefix, date |-> date, jsonl |-> jsonl, readable |-> readable, lines |-> <<>>]

filesOnDisk == Len(aggrDir.files) + Len(trainingDir.files)

EndpointInit ==
    /\ aggrDir = NoDir
    /\ aggrResponse = <<>>
    /\ trainingDir = NoDir
    /\ aggrReply = Null
    /\ FeedIdle
    /\ ChartUnmounted
    /\ SignalIdle
    /\ PanelIdle
    /\ ChatIdle
    /\ ScraperIdle
    /\ StoreIdle
    /\ AssistantIdle
    /\ StreamIdle
    /\ PollerIdle

\* the scraper creates one of the two directories
MakeDataDir ==
    /\ \/ ~aggrDir.exists /\ aggrDir' = [exists |-> TRUE, files |-> <<>>] /\ UNCHANGED trainingDir
       \/ ~trainingDir.exists /\ trainingDir' = [exists |-> TRUE, files |-> <<>>] /\ UNCHANGED aggrDir
    /\ aggrReply' = Null
    /\ UNCHANGED notEndpoint

\* the directories are removed, or can no longer be listed
RemoveDataDirs ==
    /\ aggrDir.exists \/ trainingDir.exists
    /\ aggrDir' = NoDir
    /\ trainingDir' = NoDir
    /\ aggrReply' = Null
    /\ UNCHANGED notEndpoint

\* the scraper starts a file of the day, which the server may be unable to
\* read; a file other than .jsonl may lie in the data directory
WriteFile ==
    /\ filesOnDisk < MaxDataFiles
    /\ \/ /\ aggrDir.exists
          /\ \E file \in { dataFile(prefix, Len(aggrDir.files) + 1, TRUE, readable) :
                                prefix \in {"large_trades_", "liquidations_"}, readable \in BOOLEAN }
                            \cup { dataFile("large_trades_", Len(aggrDir.files) + 1, FALSE, TRUE) } :
                aggrDir' = [aggrDir EXCEPT !.files = Append(@, file)]
          /\ UNCHANGED trainingDir
       \/ /\ trainingDir.exists
          /\ \E readable \in BOOLEAN :
                trainingDir' = [trainingDir EXCEPT !.files =
                                Append(@, dataFile("aggr_training_", Len(trainingDir.files) + 1,
                                                   TRUE, readable))]
          /\ UNCHANGED aggrDir
    /\ aggrReply' = Null
    /\ UNCHANGED notEndpoint

\* a line is appended to the newest file of a directory
WriteLine ==
    /\ totalLines(aggrDir) + totalLines(trainingDir) < MaxRecords
    /\ \E line \in RecordLines :
        \/ /\ Len(aggrDir.files) > 0
           /\ aggrDir' = [aggrDir EXCEPT !.files[Len(aggrDir.files)].lines = Append(@, line)]
           /\ UNCHANGED trainingDir
        \/ /\ Len(trainingDir.files) > 0
           /\ trainingDir' = [trainingDir EXCEPT !.files[Len(trainingDir.files)].lines = Append(@, line)]
           /\ UNCHANGED aggrDir
    /\ aggrReply' = Null
    /\ UNCHANGED notEndpoint

\* the requests made: limit and symbol matter to the lists, the outcome of
\* fs.stat to health only
Requests ==
    { [action |-> a, limit |-> Some(DEFAULT_LIMIT), symbol |-> NoSymbol, stat |-> Null] :
            a \in {"stats", "volume"} }
    \cup { [action |-> a, limit |-> l, symbol |-> sym, stat |-> Null] :
            a \in {"whales", "liquidations"}, l \in Limits, sym \in QuerySymbols }
    \cup { [action |-> "training", limit |-> l, symbol |-> NoSymbol, stat |-> Null] : l \in Limits }
    \cup { [action |-> "health", limit |-> Some(DEFAULT_LIMIT), symbol |-> NoSymbol, stat |-> st] :
            st \in Stats }

\* GET /api/aggr?action=..&limit=..&symbol=..
Request ==
    /\ \E req \in Requests :
        aggrReply' = Some([action |-> req.action, stat |-> req.stat,
                           response |-> GET(req.action, req.limit, req.symbol, aggrDir,
                                            trainingDir, req.stat)])
    /\ UNCHANGED <<aggrDir, trainingDir, notEndpoint>>

EndpointNext == MakeDataDir \/ RemoveDataDirs \/ WriteFile \/ WriteLine \/ Request

SpecEndpoint == EndpointInit /\ [][EndpointNext]_vars

(***************************************************************************)
(* Properties of the endpoint.                                             *)
(***************************************************************************)
zeroStats ==
    [totalTrades |-> 0, totalVolumeUsd |-> 0, buyVolume |-> 0, sellVolume |-> 0,
     largeTradesCount |-> 0, whaleTradesCount |-> 0, liquidationsCount |-> 0]

\* the directory is absent or cannot be listed, or none of its files can be read
nothingReadable(dir) == \A i \in 1..Len(readdir(dir)) : ~readdir(dir)[i].readable

\* the directory is absent or cannot be listed, or holds no .jsonl file
nothingListed(dir) == \A i \in 1..Len(readdir(dir)) : ~readdir(dir)[i].jsonl

\* the default of an action is answered
defaultAnswered(reply) ==
    /\ reply.response.status = 200
    /\ reply.response.body = (CASE reply.action = "stats"  -> zeroStats
                                [] reply.action = "health" -> healthDefault
                                [] OTHER                   -> <<>>)

\* C16: for stats, whales, liquidations, training and health, a data
\* directory that is absent or unreadable, or whose files are, gives the
\* default of the action: all-zero stats, an empty list, isRunning false with
\* fileCount 0 and lastDataTimestamp null; the response is never an error
C16_DefaultsWithoutData ==
    (aggrReply # Null /\ aggrReply[1].action # "volume") =>
        /\ aggrReply[1].response.status = 200
        /\ nothingReadable(IF aggrReply[1].action = "training" THEN trainingDir ELSE aggrDir)
                => defaultAnswered(aggrReply[1])

\* C16 as the code has it: the actions that read the files answer their
\* default when no file can be read; health reads no file, it answers its
\* default when no .jsonl file is listed or the file named last cannot be
\* examined, and counts the files listed otherwise, readable or not; the
\* response is never an error
C16_DefaultsWithoutReadableData ==
    (aggrReply # Null /\ aggrReply[1].action # "volume") =>
        LET reply == aggrReply[1]
        IN  /\ reply.response.status = 200
            /\ (reply.action = "training" /\ nothingReadable(trainingDir)) => defaultAnswered(reply)
            /\ (reply.action \in {"stats", "whales", "liquidations"} /\ nothingReadable(aggrDir))
                    => defaultAnswered(reply)
            /\ reply.action = "health" =>
                /\ (nothingListed(aggrDir) \/ reply.stat = Null) => defaultAnswered(reply)
                /\ ~(nothingListed(aggrDir) \/ reply.stat = Null) =>
                    /\ reply.response.body.fileCount =
                            Len(SelectSeq(aggrDir.files, LAMBDA f : f.jsonl))
                    /\ reply.response.body.lastDataTimestamp = reply.stat

\* whales was asked while the only file of large trades, with a record in
\* it, could not be read: the empty list was answered
C16_Witness ==
    /\ aggrReply # Null
    /\ aggrReply[1].action = "whales"
    /\ Len(aggrDir.files) = 1
    /\ aggrDir.files[1].prefix = "large_trades_"
    /\ ~aggrDir.files[1].readable
    /\ Len(aggrDir.files[1].lines) > 0
    /\ aggrDir.files[1].lines[1].kind = "json"
    /\ aggrReply[1].response = [status |-> 200, body |-> <<>>]

(***************************************************************************)
(* Pending chat message (lib/chat-integration.ts).  The item of            *)
(* sessionStorage is null or <<string>>.                                   *)
(***************************************************************************)
\* calls of the three functions in one behaviour
MaxCalls == 4

\* setPendingChatMessage: the item after the call
setPendingChatMessage(item, window, message) ==
    IF window THEN Some(message) ELSE item

\* consumePendingChatMessage: what it returns and the item after the call;
\* `if (message)` is false for null and for the empty string
consumePendingChatMessage(item, window) ==
    IF ~window THEN [result |-> Null, item |-> item]
    ELSE [result |-> item, item |-> IF item # Null /\ item[1] # "" THEN Null ELSE item]

\* hasPendingChatMessage: getItem(...) !== null
hasPendingChatMessage(item, window) ==
    IF ~window THEN FALSE ELSE item # Null

\* the messages the pages store
Messages == {"", "explain this trade", "summarise my journal"}

ChatInit ==
    /\ hasWindow \in BOOLEAN
    /\ storage = Null
    /\ chatLog = <<>>
    /\ FeedIdle
    /\ AggrIdle
    /\ ChartUnmounted
    /\ SignalIdle
    /\ PanelIdle
    /\ EndpointIdle
    /\ ScraperIdle
    /\ StoreIdle
    /\ AssistantIdle
    /\ StreamIdle
    /\ PollerIdle

call(op, message, before, result) ==
    [op |-> op, message |-> message, before |-> before, result |-> result, after |-> storage']

SetMessage ==
    /\ Len(chatLog) < MaxCalls
    /\ \E message \in Messages :
        /\ storage' = setPendingChatMessage(storage, hasWindow, message)
        /\ chatLog' = Append(chatLog, call("set", message, storage, Null))
    /\ UNCHANGED <<hasWindow, notChat>>

ConsumeMessage ==
    /\ Len(chatLog) < MaxCalls
    /\ storage' = consumePendingChatMessage(storage, hasWindow).item
    /\ chatLog' = Append(chatLog, call("consume", "", storage,
                                       consumePendingChatMessage(storage, hasWindow).result))
    /\ UNCHANGED <<hasWindow, notChat>>

HasMessage ==
    /\ Len(chatLog) < MaxCalls
    /\ storage' = storage
    /\ chatLog' = Append(chatLog, call("has", "", storage,
                                       Some(hasPendingChatMessage(storage, hasWindow))))
    /\ UNCHANGED <<hasWindow, notChat>>

ChatNext == SetMessage \/ ConsumeMessage \/ HasMessage

SpecChat == ChatInit /\ [][ChatNext]_vars

(***************************************************************************)
(* Properties of the pending chat message.                                 *)
(***************************************************************************)
\* the calls of `op` in the log
callsOf(op) == { i \in 1..Len(chatLog) : chatLog[i].op = op }

\* the last set before call i, 0 when there is none
lastSetBefore(i) ==
    LET sets == { j \in callsOf("set") : j < i }
    IN  IF sets = {} THEN 0 ELSE CHOOSE j \in sets : \A k \in sets : k <= j

\* C17: in a browser a stored message is returned by the first consume after
\* it and by no later one: that consume removes it, so has is false and
\* consume returns null until the next set; has changes nothing; a set
\* replaces the message stored before
C17_DeliveredAtMostOnce ==
    hasWindow =>
        /\ \A i \in callsOf("set") : chatLog[i].after = Some(chatLog[i].message)
        /\ \A i \in callsOf("has") :
                /\ chatLog[i].after = chatLog[i].before
                /\ chatLog[i].result = Some(chatLog[i].before # Null)
        /\ \A i \in callsOf("consume") :
                LET j == lastSetBefore(i)
                    first == j > 0 /\ \A k \in callsOf("consume") : ~(j < k /\ k < i)
                IN  /\ chatLog[i].after = Null
                    /\ chatLog[i].result = (IF first THEN Some(chatLog[j].message) ELSE Null)
        /\ \A i \in 2..Len(chatLog) : chatLog[i].before = chatLog[i - 1].after

(***************************************************************************)
(* Scraper start script (unnamed/part_002): start, stop and restart.  An   *)
(* invocation is a shell of its own; every command of a function is one    *)
(* step, and the steps of concurrent invocations interleave.               *)
(***************************************************************************)
\* scrapers the script starts in one behaviour
MaxSpawns == 3

Commands == {"start", "stop", "restart"}

\* ps -p "$PID": false for the empty string a failed cat leaves
running(pid) == pid # Null /\ pid[1] \in procs

at(id, pc) == shells[id].pc = pc

goto(id, pc) == shells' = [shells EXCEPT ![id].pc = pc]

\* the function returned: the case statement ends, or restart goes on to start
finish(id, function) ==
    IF shells[id].cmd = "restart" /\ function = "stop"
    THEN /\ goto(id, "start:test")
         /\ UNCHANGED scraperLog
    ELSE /\ shells' = [shells EXCEPT ![id] = [cmd |-> "none", pc |-> "done", pid |-> Null]]
         /\ scraperLog' = [scraperLog EXCEPT !.finished = shells[id].cmd]

\* scraper.sh start | stop | restart
Invoke ==
    /\ spawned < MaxSpawns
    /\ \E id \in 1..MaxShells, cmd \in Commands :
        /\ at(id, "done")
        /\ shells' = [shells EXCEPT ![id] = [cmd |-> cmd,
                                             pc |-> IF cmd = "start" THEN "start:test" ELSE "stop:test",
                                             pid |-> Null]]
    /\ UNCHANGED <<procs, pidFile, spawned, scraperLog, notScraper>>

\* start_scrapers: if [ -f "$PID_FILE" ]
StartTest ==
    /\ \E id \in 1..MaxShells :
        /\ at(id, "start:test")
        /\ goto(id, IF pidFile # Null THEN "start:cat" ELSE "start:spawn")
    /\ UNCHANGED <<procs, pidFile, spawned, scraperLog, notScraper>>

\* OLD_PID=$(cat "$PID_FILE"): empty when the file is gone by now
StartCat ==
    /\ \E id \in 1..MaxShells :
        /\ at(id, "start:cat")
        /\ shells' = [shells EXCEPT ![id].pid = pidFile, ![id].pc = "start:ps"]
    /\ UNCHANGED <<procs, pidFile, spawned, scraperLog, notScraper>>

\* if ps -p "$OLD_PID"; then return 0
StartPs ==
    /\ \E id \in 1..MaxShells :
        /\ at(id, "start:ps")
        /\ IF running(shells[id].pid)
           THEN finish(id, "start")
           ELSE goto(id, "start:spawn") /\ UNCHANGED scraperLog
    /\ UNCHANGED <<procs, pidFile, spawned, notScraper>>

\* nohup python market_scraper.py & NEW_PID=$!
StartSpawn ==
    /\ \E id \in 1..MaxShells :
        /\ at(id, "start:spawn")
        /\ procs' = procs \cup {spawned + 1}
        /\ spawned' = spawned + 1
        /\ shells' = [shells EXCEPT ![id].pid = Some(spawned + 1), ![id].pc = "start:echo"]
        /\ scraperLog' = [scraperLog EXCEPT !.spawnedBesideRunning = @ \/ procs # {}]
    /\ UNCHANGED <<pidFile, notScraper>>

\* echo $NEW_PID > "$PID_FILE"
StartEcho ==
    /\ \E id \in 1..MaxShells :
        /\ at(id, "start:echo")
        /\ pidFile' = shells[id].pid
        /\ goto(id, "start:verify")
    /\ UNCHANGED <<procs, spawned, scraperLog, notScraper>>

\* sleep 2; ps -p "$NEW_PID": reports, changes nothing
StartVerify ==
    /\ \E id \in 1..MaxShells :
        /\ at(id, "start:verify")
        /\ finish(id, "start")
    /\ UNCHANGED <<procs, pidFile, spawned, notScraper>>

\* stop_scrapers: if [ -f "$PID_FILE" ]
StopTest ==
    /\ \E id \in 1..MaxShells :
        /\ at(id, "stop:test")
        /\ goto(id, IF pidFile # Null THEN "stop:cat" ELSE "stop:pkill")
    /\ UNCHANGED <<procs, pidFile, spawned, scraperLog, notScraper>>

\* PID=$(cat "$PID_FILE")
StopCat ==
    /\ \E id \in 1..MaxShells :
        /\ at(id, "stop:cat")
        /\ shells' = [shells EXCEPT ![id].pid = pidFile, ![id].pc = "stop:ps"]
    /\ UNCHANGED <<procs, pidFile, spawned, scraperLog, notScraper>>

\* if ps -p "$PID"
StopPs ==
    /\ \E id \in 1..MaxShells :
        /\ at(id, "stop:ps")
        /\ goto(id, IF running(shells[id].pid) THEN "stop:kill" ELSE "stop:rm")
    /\ UNCHANGED <<procs, pidFile, spawned, scraperLog, notScraper>>

\* kill "$PID"
StopKill ==
    /\ \E id \in 1..MaxShells :
        /\ at(id, "stop:kill")
        /\ procs' = procs \ {shells[id].pid[1]}
        /\ goto(id, "stop:rm")
    /\ UNCHANGED <<pidFile, spawned, scraperLog, notScraper>>

\* rm -f "$PID_FILE"
StopRm ==
    /\ \E id \in 1..MaxShells :
        /\ at(id, "stop:rm")
        /\ pidFile' = Null
        /\ goto(id, "stop:pkill")
    /\ UNCHANGED <<procs, spawned, scraperLog, notScraper>>

\* pkill -f "python market_scraper.py": every scraper running now
StopPkill ==
    /\ \E id \in 1..MaxShells :
        /\ at(id, "stop:pkill")
        /\ procs' = {}
        /\ finish(id, "stop")
    /\ UNCHANGED <<pidFile, spawned, notScraper>>

\* a scraper ends by itself
ScraperExits ==
    /\ \E pid \in procs : procs' = procs \ {pid}
    /\ UNCHANGED <<pidFile, shells, spawned, scraperLog, notScraper>>

ScraperInit ==
    /\ ScraperIdle
    /\ FeedIdle
    /\ AggrIdle
    /\ ChartUnmounted
    /\ SignalIdle
    /\ PanelIdle
    /\ EndpointIdle
    /\ ChatIdle
    /\ StoreIdle
    /\ AssistantIdle
    /\ StreamIdle
    /\ PollerIdle

ScraperNext ==
    \/ Invoke \/ StartTest \/ StartCat \/ StartPs \/ StartSpawn \/ StartEcho \/ StartVerify
    \/ StopTest \/ StopCat \/ StopPs \/ StopKill \/ StopRm \/ StopPkill \/ ScraperExits

SpecScraper == ScraperInit /\ [][ScraperNext]_vars

(***************************************************************************)
(* Properties of the scraper script.                                       *)
(***************************************************************************)
\* no invocation of the script is under way
quiet == \A id \in 1..MaxShells : at(id, "done")

\* C20: whatever invocations of start, stop and restart ran, one after the
\* other or at once, at most one scraper started by the script is running,
\* start has spawned none beside a running one, and once a stop has returned
\* and nothing else is under way there is no scraper and no PID file
C20_AtMostOneScraper ==
    /\ Cardinality(procs) <= 1
    /\ ~scraperLog.spawnedBesideRunning
    /\ (quiet /\ scraperLog.finished = "stop") => (procs = {} /\ pidFile = Null)

(***************************************************************************)
(* Trading store (center-panel.tsx, useTradingStore).  An id is            *)
(* [prefix, t]: the text before the dash and the Date.now() after it;      *)
(* 'paper-main' is [prefix |-> "paper", t |-> 0].                          *)
(***************************************************************************)
\* milliseconds the clock advances in one behaviour
MaxClock == 3
\* calls of store actions in one behaviour
MaxStoreCalls == 4

idOf(prefix, now) == [prefix |-> prefix, t |-> now]

\* addJournalEntry: the entry with id and createdAt, in front
addJournalEntry(state, entry, now) ==
    [state EXCEPT !.journal =
        << [id |-> idOf("journal", now), createdAt |-> now, type |-> entry.type,
            title |-> entry.title, symbols |-> entry.symbols, tradeId |-> entry.tradeId,
            tags |-> entry.tags] >> \o @]

\* addPosition: the position with its id appended, then the journal entry
addPosition(state, opened, now) ==
    LET id == idOf("pos", now)
        newPosition == [id |-> id, symbol |-> opened.symbol, side |-> opened.side,
                        size |-> opened.size, entryPrice |-> opened.entryPrice]
        appended == [state EXCEPT !.positions = Append(@, newPosition)]
    IN  addJournalEntry(appended,
                        [type |-> "trade", title |-> <<"Opened", opened.side, opened.symbol>>,
                         symbols |-> <<opened.symbol>>, tradeId |-> Some(id),
                         tags |-> <<"trade", opened.side>>],
                        now)

\* closePosition: nothing without a position of that id; else every position
\* of that id is filtered out and one journal entry is added
closePosition(state, positionId, exitPrice, now) ==
    LET found == SelectSeq(state.positions, LAMBDA p : p.id = positionId)
    IN  IF Len(found) = 0 THEN state
        ELSE LET opened == found[1]
                 pnl == IF opened.side = "long"
                        THEN (exitPrice - opened.entryPrice) * opened.size
                        ELSE (opened.entryPrice - exitPrice) * opened.size
                 filtered == [state EXCEPT !.positions = SelectSeq(@, LAMBDA p : p.id # positionId)]
             IN  addJournalEntry(filtered,
                                 [type |-> "trade",
                                  title |-> <<"Closed", opened.side, opened.symbol>>,
                                  symbols |-> <<opened.symbol>>, tradeId |-> Some(positionId),
                                  tags |-> <<"trade", "closed", IF pnl > 0 THEN "win" ELSE "loss">>],
                                 now)

\* connectExchange after its timeout: the account appended and made current
connectExchange(state, exchange, now) ==
    LET newAccount == [id |-> idOf(exchange, now), exchange |-> exchange, type |-> "spot",
                       balance |-> 10000]
    IN  [state EXCEPT !.accounts = Append(@, newAccount),
                      !.currentAccountId = Some(newAccount.id)]

\* disconnectExchange: state.accounts[0] is read from the accounts before the filter
disconnectExchange(state, accountId) ==
    [state EXCEPT !.accounts = SelectSeq(@, LAMBDA a : a.id # accountId),
                  !.currentAccountId =
                        IF @ = Some(accountId)
                        THEN (IF Len(state.accounts) > 0 THEN Some(state.accounts[1].id) ELSE Null)
                        ELSE @]

mockAccounts == << [id |-> idOf("paper", 0), exchange |-> "paper", type |-> "paper", balance |-> 100000] >>

\* initializeMockData: accounts, currentAccountId and positions are replaced
initializeMockData(state) ==
    [state EXCEPT !.accounts = mockAccounts, !.currentAccountId = Some(idOf("paper", 0)),
                  !.positions = <<>>]

\* setMode
setMode(state, mode) == [state EXCEPT !.mode = mode]

\* the positions a caller opens
NewPositions ==
    { [symbol |-> "BTCUSDT", side |-> "long", size |-> 2, entryPrice |-> 4000],
      [symbol |-> "ETHUSDT", side |-> "short", size |-> 5, entryPrice |-> 200] }

ExitPrices == {150, 4100}

Exchanges == {"binance", "bybit"}

\* the ids a caller may name: those of the positions and accounts held, and one held by nothing
PositionIds == { store.positions[k].id : k \in 1..Len(store.positions) } \cup { idOf("pos", 0) }
AccountIds == { store.accounts[k].id : k \in 1..Len(store.accounts) } \cup { idOf("kraken", 0) }

callsMade == IF storeLog = Null THEN 0 ELSE storeLog[1].n

logged(op, arg) == Some([op |-> op, arg |-> arg, before |-> store, n |-> callsMade + 1])

StoreInit ==
    /\ StoreIdle
    /\ FeedIdle
    /\ AggrIdle
    /\ ChartUnmounted
    /\ SignalIdle
    /\ PanelIdle
    /\ EndpointIdle
    /\ ChatIdle
    /\ ScraperIdle
    /\ AssistantIdle
    /\ StreamIdle
    /\ PollerIdle

\* a millisecond passes
Tick ==
    /\ clock < MaxClock
    /\ clock' = clock + 1
    /\ UNCHANGED <<store, connecting, storeLog, notStore>>

AddPosition ==
    /\ callsMade < MaxStoreCalls
    /\ \E opened \in NewPositions :
        /\ store' = addPosition(store, opened, clock)
        /\ storeLog' = logged("addPosition", idOf("pos", clock))
    /\ UNCHANGED <<clock, connecting, notStore>>

ClosePosition ==
    /\ callsMade < MaxStoreCalls
    /\ \E positionId \in PositionIds, exitPrice \in ExitPrices :
        /\ store' = closePosition(store, positionId, exitPrice, clock)
        /\ storeLog' = logged("closePosition", positionId)
    /\ UNCHANGED <<clock, connecting, notStore>>

\* connectExchange is called: its timeout starts
ConnectExchange ==
    /\ callsMade + Len(connecting) < MaxStoreCalls
    /\ \E exchange \in Exchanges : connecting' = Append(connecting, exchange)
    /\ UNCHANGED <<store, clock, storeLog, notStore>>

\* the timeout of the oldest connectExchange call ends
Connected ==
    /\ Len(connecting) > 0
    /\ store' = connectExchange(store, Head(connecting), clock)
    /\ connecting' = Tail(connecting)
    /\ storeLog' = logged("connectExchange", idOf(Head(connecting), clock))
    /\ UNCHANGED <<clock, notStore>>

DisconnectExchange ==
    /\ callsMade < MaxStoreCalls
    /\ \E accountId \in AccountIds :
        /\ store' = disconnectExchange(store, accountId)
        /\ storeLog' = logged("disconnectExchange", accountId)
    /\ UNCHANGED <<clock, connecting, notStore>>

InitializeMockData ==
    /\ callsMade < MaxStoreCalls
    /\ store' = initializeMockData(store)
    /\ storeLog' = logged("initializeMockData", idOf("paper", 0))
    /\ UNCHANGED <<clock, connecting, notStore>>

StoreNext ==
    \/ Tick \/ AddPosition \/ ClosePosition \/ ConnectExchange \/ Connected
    \/ DisconnectExchange \/ InitializeMockData

SpecStore == StoreInit /\ [][StoreNext]_vars

(***************************************************************************)
(* Properties of the trading store.                                        *)
(***************************************************************************)
\* C21: addPosition appends one position and puts one journal entry with its
\* id in front; closePosition of an id held removes one position, that one,
\* and puts one journal entry with the id in front; closePosition of an id
\* not held changes neither positions nor journal; the journal never shrinks
C21_JournalRecordsLifecycle ==
    storeLog # Null =>
        LET before == storeLog[1].before
            id     == storeLog[1].arg
            held   == \E k \in 1..Len(before.positions) : before.positions[k].id = id
        IN  /\ Len(store.journal) >= Len(before.journal)
            /\ storeLog[1].op = "addPosition" =>
                /\ Len(store.positions) = Len(before.positions) + 1
                /\ SubSeq(store.positions, 1, Len(before.positions)) = before.positions
                /\ store.positions[Len(store.positions)].id = id
                /\ Tail(store.journal) = before.journal
                /\ store.journal[1].tradeId = Some(id)
            /\ (storeLog[1].op = "closePosition" /\ held) =>
                /\ Len(store.positions) = Len(before.positions) - 1
                /\ \A k \in 1..Len(store.positions) : store.positions[k].id # id
                /\ Tail(store.journal) = before.journal
                /\ store.journal[1].tradeId = Some(id)
            /\ (storeLog[1].op = "closePosition" /\ ~held) =>
                /\ store.positions = before.positions
                /\ store.journal = before.journal

\* C22: currentAccountId is null or the id of an account in accounts
C22_CurrentAccountExists ==
    \/ store.currentAccountId = Null
    \/ \E k \in 1..Len(store.accounts) : Some(store.accounts[k].id) = store.currentAccountId

(***************************************************************************)
(* Trading assistant (part_000, TradingAssistant).  A message is           *)
(* [id, role, action]; the action is null or a TradingAction.  The         *)
(* handlers of the buttons are those of the last render: they read         *)
(* messages and mode from its closure, and setMessages(prev => ...)        *)
(* applies to the messages state.                                          *)
(***************************************************************************)
\* messages in one behaviour
MaxMessages == 4
\* clicks on Confirm and Cancel in one behaviour
MaxClicks == 3

\* parseTradeIntent: null without "long", "buy", "short" or "sell" in the text
parseTradeIntent(text) ==
    IF text = "long btc"
    THEN Some([type |-> "trade", side |-> "long", symbol |-> "BTCUSDT", confirmed |-> FALSE])
    ELSE IF text = "sell eth"
    THEN Some([type |-> "trade", side |-> "short", symbol |-> "ETHUSDT", confirmed |-> FALSE])
    ELSE Null

\* what the user types
Inputs == {"long btc", "sell eth", "analyze btc"}

\* messages.find(m => m.id === messageId): the first message of that id, or null
findMessage(msgs, messageId) ==
    LET found == SelectSeq(msgs, LAMBDA m : m.id = messageId)
    IN  IF Len(found) = 0 THEN Null ELSE Some(found[1])

\* { ...m.action!, confirmed: true }: of no action only the flag is left
confirmedAction(action) ==
    IF action = Null
    THEN Some([type |-> "undefined", side |-> "undefined", symbol |-> "undefined", confirmed |-> TRUE])
    ELSE Some([action[1] EXCEPT !.confirmed = TRUE])

markConfirmed(msgs, messageId) ==
    [k \in 1..Len(msgs) |->
        IF msgs[k].id = messageId THEN [msgs[k] EXCEPT !.action = confirmedAction(@)] ELSE msgs[k]]

clearAction(msgs, messageId) ==
    [k \in 1..Len(msgs) |->
        IF msgs[k].id = messageId THEN [msgs[k] EXCEPT !.action = Null] ELSE msgs[k]]

\* handleConfirmTrade without the test of the mode
handleConfirmTradeInAnyMode(rendered, msgs, state, messageId, now) ==
    LET message == findMessage(rendered.messages, messageId)
    IN  IF message = Null \/ message[1].action = Null \/ message[1].action[1].type # "trade"
        THEN [messages |-> msgs, store |-> state, added |-> FALSE]
        ELSE LET action == message[1].action[1]
             IN  [messages |-> Append(markConfirmed(msgs, messageId),
                                      [id |-> now, role |-> "assistant", action |-> Null]),
                  store |-> addPosition(state, [symbol |-> action.symbol, side |-> action.side,
                                                size |-> 1, entryPrice |-> 67500], now),
                  added |-> TRUE]

\* handleConfirmTrade: the message and the mode are those of the render
handleConfirmTrade(rendered, msgs, state, messageId, now) ==
    LET message == findMessage(rendered.messages, messageId)
    IN  IF message = Null \/ message[1].action = Null \/ message[1].action[1].type # "trade"
        THEN [messages |-> msgs, store |-> state, added |-> FALSE]
        ELSE IF rendered.mode = "view"
        THEN [messages |-> msgs, store |-> state, added |-> FALSE]
        ELSE LET action == message[1].action[1]
             IN  [messages |-> Append(markConfirmed(msgs, messageId),
                                      [id |-> now, role |-> "assistant", action |-> Null]),
                  store |-> addPosition(state, [symbol |-> action.symbol, side |-> action.side,
                                                size |-> 1, entryPrice |-> 67500], now),
                  added |-> TRUE]

\* handleRejectTrade
handleRejectTrade(msgs, messageId, now) ==
    Append(clearAction(msgs, messageId), [id |-> now, role |-> "assistant", action |-> Null])

\* the render: the handlers close over the messages state and the mode of the store
rerender(msgs, state) == [messages |-> msgs, mode |-> state.mode]

\* the messages whose trade card, with its Confirm and Cancel buttons, is on the screen
cards ==
    { k \in 1..Len(closure.messages) :
        /\ closure.messages[k].action # Null
        /\ closure.messages[k].action[1].type = "trade"
        /\ ~closure.messages[k].action[1].confirmed }

Modes == {"view", "paper", "live"}

AssistantInit ==
    /\ AssistantIdle
    /\ StoreIdle
    /\ FeedIdle
    /\ AggrIdle
    /\ ChartUnmounted
    /\ SignalIdle
    /\ PanelIdle
    /\ EndpointIdle
    /\ ChatIdle
    /\ ScraperIdle
    /\ StreamIdle
    /\ PollerIdle

\* handleSend up to its timeout: the user's message is added
Send ==
    /\ Len(messages) + Len(sending) + 1 < MaxMessages
    /\ \E input \in Inputs :
        /\ input # ""
        /\ messages' = Append(messages, [id |-> clock, role |-> "user", action |-> Null])
        /\ sending' = Append(sending, [input |-> input, at |-> clock])
    /\ UNCHANGED <<store, clock, closure, assistantLog, notAssistant>>

\* handleSend after its timeout: the assistant's message, with the action found in the input
SendResumes ==
    /\ Len(sending) > 0
    /\ clock > Head(sending).at
    /\ messages' = Append(messages, [id |-> clock + 1, role |-> "assistant",
                                     action |-> parseTradeIntent(Head(sending).input)])
    /\ sending' = Tail(sending)
    /\ UNCHANGED <<store, clock, closure, assistantLog, notAssistant>>

\* the component renders after a change of its messages
Render ==
    /\ closure # rerender(messages, store)
    /\ closure' = rerender(messages, store)
    /\ UNCHANGED <<store, clock, messages, sending, assistantLog, notAssistant>>

\* the mode is changed in the store, and the store has its subscribers render
SetMode ==
    /\ \E mode \in Modes :
        /\ mode # store.mode
        /\ store' = setMode(store, mode)
        /\ closure' = rerender(messages, store')
    /\ UNCHANGED <<clock, messages, sending, assistantLog, notAssistant>>

clicked(op, k, added) ==
    [clicks |-> Append(assistantLog.clicks, [op |-> op, k |-> k, added |-> added]),
     last |-> Some([op |-> op, k |-> k, mode |-> store.mode, positions |-> store.positions,
                    journal |-> store.journal, action |-> messages[k].action])]

\* a click on the Confirm button of a card
ConfirmClick ==
    /\ Len(assistantLog.clicks) < MaxClicks
    /\ \E k \in cards :
        LET result == handleConfirmTrade(closure, messages, store, closure.messages[k].id, clock)
        IN  /\ messages' = result.messages
            /\ store' = result.store
            /\ assistantLog' = clicked("confirm", k, result.added)
    /\ UNCHANGED <<clock, closure, sending, notAssistant>>

\* a click on the Cancel button of a card
CancelClick ==
    /\ Len(assistantLog.clicks) < MaxClicks
    /\ \E k \in cards :
        /\ messages' = handleRejectTrade(messages, closure.messages[k].id, clock)
        /\ assistantLog' = clicked("cancel", k, FALSE)
    /\ UNCHANGED <<store, clock, closure, sending, notAssistant>>

AssistantNext ==
    \/ Tick \/ Send \/ SendResumes \/ Render \/ SetMode \/ ConfirmClick \/ CancelClick

SpecAssistant == AssistantInit /\ [][AssistantNext]_vars

(***************************************************************************)
(* Properties of the trading assistant.                                    *)
(***************************************************************************)
\* C23: over any sequence of clicks on Confirm and Cancel, a proposed trade
\* adds at most one position, and none after a Cancel of its message
C23_ExecutedAtMostOnce ==
    LET clicks == assistantLog.clicks
    IN  \A i, j \in 1..Len(clicks) :
            (i < j /\ clicks[i].k = clicks[j].k /\ (clicks[i].added \/ clicks[i].op = "cancel"))
                => ~clicks[j].added

MaxReads == 3
\* pieces in one chunk
MaxChunk == 2

Pieces == {"data: ", "[DONE]", "{}", "x", "\n"}

Chunks == UNION { [1..n -> Pieces] : n \in 0..MaxChunk }

\* text.split('\n'): the pieces between the line ends, the last one what follows the last line end
RECURSIVE split(_)
split(text) ==
    IF \A k \in 1..Len(text) : text[k] # "\n" THEN <<text>>
    ELSE LET k == CHOOSE i \in 1..Len(text) :
                    text[i] = "\n" /\ \A j \in 1..(i - 1) : text[j] # "\n"
         IN  <<SubSeq(text, 1, k - 1)>> \o split(SubSeq(text, k + 1, Len(text)))

\* line.startsWith('data: ')
startsWithData(line) == Len(line) > 0 /\ line[1] = "data: "

\* JSON.parse(data), then parsed.content || parsed.text || '': null where parse throws
parsedContent(data) == IF data = <<"{}">> THEN Some(<<"a">>) ELSE Null

\* the events the for loop yields for the lines of one chunk
RECURSIVE eventsOfLines(_)
eventsOfLines(lines) ==
    IF lines = <<>> THEN <<>>
    ELSE LET line == Head(lines)
             data == Tail(line)
             event == IF data = <<"[DONE]">> THEN [type |-> "done", content |-> <<>>]
                      ELSE IF parsedContent(data) # Null
                      THEN [type |-> "token", content |-> parsedContent(data)[1]]
                      ELSE [type |-> "token", content |-> data]
         IN  (IF startsWithData(line) THEN <<event>> ELSE <<>>) \o eventsOfLines(Tail(lines))

\* one turn of the while loop with a chunk read
readChunk(s, chunk) ==
    LET lines == split(s.buffer \o chunk)
    IN  [s EXCEPT !.buffer = lines[Len(lines)],
                  !.events = @ \o eventsOfLines(SubSeq(lines, 1, Len(lines) - 1)),
                  !.received = @ \o chunk,
                  !.reads = @ + 1]

yield(s, type, text, next) ==
    [s EXCEPT !.events = Append(@, [type |-> type, content |-> <<text>>]), !.at = next]

StreamInit ==
    /\ StreamIdle
    /\ AssistantIdle
    /\ StoreIdle
    /\ FeedIdle
    /\ AggrIdle
    /\ ChartUnmounted
    /\ SignalIdle
    /\ PanelIdle
    /\ EndpointIdle
    /\ ChatIdle
    /\ ScraperIdle
    /\ PollerIdle

\* the generator is started: fetch is called
StreamChatMessage ==
    /\ stream.at = "idle"
    /\ stream' = [stream EXCEPT !.at = "fetch"]
    /\ UNCHANGED notStream

\* fetch rejects: the catch block yields the error
FetchRejects ==
    /\ stream.at = "fetch"
    /\ stream' = yield(stream, "error", "error.message", "returned")
    /\ UNCHANGED notStream

\* the response is not ok, or has no body
ResponseUnusable ==
    /\ stream.at = "fetch"
    /\ \E text \in {"API error", "No response body"} :
            stream' = yield(stream, "error", text, "returned")
    /\ UNCHANGED notStream

\* the response is ok and has a body
ResponseOk ==
    /\ stream.at = "fetch"
    /\ stream' = [stream EXCEPT !.at = "read"]
    /\ UNCHANGED notStream

\* reader.read() returns a chunk
ReadChunk ==
    /\ stream.at = "read"
    /\ stream.reads < MaxReads
    /\ \E chunk \in Chunks : stream' = readChunk(stream, chunk)
    /\ UNCHANGED notStream

\* reader.read() returns done: the loop ends and done is yielded
ReadDone ==
    /\ stream.at = "read"
    /\ stream' = yield(stream, "done", "", "returned")
    /\ UNCHANGED notStream

\* reader.read() rejects: the catch block yields the error
ReadRejects ==
    /\ stream.at = "read"
    /\ stream' = yield(stream, "error", "error.message", "returned")
    /\ UNCHANGED notStream

StreamNext ==
    \/ StreamChatMessage \/ FetchRejects \/ ResponseUnusable \/ ResponseOk
    \/ ReadChunk \/ ReadDone \/ ReadRejects

SpecStream == StreamInit /\ [][StreamNext]_vars

(***************************************************************************)
(* Properties of the chat stream.                                          *)
(***************************************************************************)
terminal(event) == event.type \in {"done", "error"}

\* the complete lines received that start with 'data: '
dataLines ==
    LET lines == split(stream.received)
    IN  Len(SelectSeq(SubSeq(lines, 1, Len(lines) - 1), startsWithData))

\* C25: the events are tokens followed by one terminal event, which is the
\* last: no event follows a terminal one, a generator that returned has
\* yielded one, and each complete 'data: ' line received has produced one event
C25_TokensThenOneTerminal ==
    /\ \A k \in 1..Len(stream.events) :
            terminal(stream.events[k]) => (k = Len(stream.events) /\ stream.at = "returned")
    /\ stream.at = "returned" =>
            (Len(stream.events) > 0 /\ terminal(stream.events[Len(stream.events)]))
    /\ Len(stream.events) = dataLines + (IF stream.at = "returned" THEN 1 ELSE 0)

(***************************************************************************)
(* Interval timers of the polling components: OrderBook (order-book.tsx),  *)
(* the ticker of CenterPanel and RecentTrades (center-panel.tsx), and the  *)
(* two useLivePrices hooks (hooks/use-live-prices.ts, part_001).  React    *)
(* runs the cleanup of an effect before it runs the effect again and when  *)
(* the component unmounts.                                                 *)
(***************************************************************************)
\* setInterval calls in one behaviour
MaxTimers == 4
\* interval callbacks in one behaviour
MaxFires == 2

\* the components whose effect keeps the timer in a const of its closure
ClosureKinds == {"orderbook", "ticker", "trades"}
\* the hooks whose effect keeps the timer in intervalRef
RefKinds == {"prices", "storePrices"}

PollSymbols == {"BTCUSDT", "ETHUSDT"}
RefreshIntervals == {5000, 10000}

\* setInterval: a timer with a new id is active
setInterval(t) ==
    [active |-> t.active \cup {t.made + 1}, made |-> t.made + 1,
     overlapped |-> t.overlapped \/ t.active # {}]

\* clearInterval
clearInterval(t, id) == [t EXCEPT !.active = @ \ {id}]

\* an effect that sets the interval and returns no cleanup
effectWithoutCleanup(p, t) ==
    IF p.kind = "prices" /\ ~p.autoRefresh
    THEN [poller |-> [p EXCEPT !.cleanup = Null], timers |-> t]
    ELSE [poller |-> [p EXCEPT !.fetches = IF p.kind = "prices" THEN @ ELSE @ + 1,
                               !.cleanup = Null],
          timers |-> setInterval(t)]

\* the effect: a fetch, then the interval; the cleanup it returns is null (none),
\* the timer of its closure, or "ref" for the one that reads intervalRef
effect(p, t) ==
    IF p.kind \in ClosureKinds
    THEN [poller |-> [p EXCEPT !.fetches = @ + 1, !.cleanup = Some([of |-> "closure", id |-> t.made + 1])],
          timers |-> setInterval(t)]
    ELSE IF p.kind = "prices" /\ ~p.autoRefresh
    THEN [poller |-> [p EXCEPT !.cleanup = Null], timers |-> t]
    ELSE [poller |-> [p EXCEPT !.fetches = IF p.kind = "storePrices" THEN @ + 1 ELSE @,
                               !.intervalRef = Some(t.made + 1),
                               !.cleanup = Some([of |-> "ref", id |-> 0])],
          timers |-> setInterval(t)]

\* the cleanup the last effect returned
cleanup(p, t) ==
    IF p.cleanup = Null THEN t
    ELSE IF p.cleanup[1].of = "closure" THEN clearInterval(t, p.cleanup[1].id)
    ELSE IF p.intervalRef # Null THEN clearInterval(t, p.intervalRef[1])
    ELSE t

PollerInit ==
    /\ PollerIdle
    /\ StreamIdle
    /\ AssistantIdle
    /\ StoreIdle
    /\ FeedIdle
    /\ AggrIdle
    /\ ChartUnmounted
    /\ SignalIdle
    /\ PanelIdle
    /\ EndpointIdle
    /\ ChatIdle
    /\ ScraperIdle

\* a component mounts: its refs are new, its effects run; the initial-fetch
\* effect of hooks/use-live-prices.ts fetches, part_001 fills the store
PollerMount ==
    /\ ~poller.mounted
    /\ timers.made < MaxTimers
    /\ poller.fetches <= MaxFires + timers.made
    /\ \E kind \in ClosureKinds \cup RefKinds, symbol \in PollSymbols,
          autoRefresh \in BOOLEAN, refreshInterval \in RefreshIntervals :
        /\ kind \in ClosureKinds => autoRefresh /\ refreshInterval = 5000
        /\ kind \in RefKinds => symbol = "BTCUSDT"
        /\ kind = "storePrices" => autoRefresh /\ refreshInterval = 5000
        /\ poller.kind \in {"none", kind}
        /\ LET fresh == [kind |-> kind, mounted |-> TRUE, symbol |-> symbol,
                         autoRefresh |-> autoRefresh, refreshInterval |-> refreshInterval,
                         intervalRef |-> Null, cleanup |-> Null,
                         fetches |-> poller.fetches + (IF kind = "prices" THEN 1 ELSE 0),
                         recreated |-> poller.recreated]
           IN  /\ poller' = effect(fresh, timers).poller
               /\ timers' = effect(fresh, timers).timers
               /\ store' = IF kind = "storePrices" THEN initializeMockData(store) ELSE store
    /\ UNCHANGED <<clock, connecting, storeLog, notPoller>>

\* the symbol changes: the fetch callback is created again, the cleanup of the
\* effect runs and then the effect
SymbolChanges ==
    /\ poller.mounted
    /\ poller.kind \in ClosureKinds
    /\ timers.made < MaxTimers
    /\ \E symbol \in PollSymbols \ {poller.symbol} :
        LET next == [poller EXCEPT !.symbol = symbol, !.recreated = @ + 1]
            cleared == cleanup(poller, timers)
        IN  /\ poller' = effect(next, cleared).poller
            /\ timers' = effect(next, cleared).timers
    /\ UNCHANGED <<store, clock, connecting, storeLog, notPoller>>

\* an option of useLivePrices changes: the cleanup of the auto-refresh effect
\* runs and then the effect
OptionChanges ==
    /\ poller.mounted
    /\ poller.kind = "prices"
    /\ timers.made < MaxTimers
    /\ poller.recreated < MaxTimers
    /\ \E autoRefresh \in BOOLEAN, refreshInterval \in RefreshIntervals :
        /\ <<autoRefresh, refreshInterval>> # <<poller.autoRefresh, poller.refreshInterval>>
        /\ LET next == [poller EXCEPT !.autoRefresh = autoRefresh,
                                      !.refreshInterval = refreshInterval,
                                      !.recreated = @ + 1]
               cleared == cleanup(poller, timers)
           IN  /\ poller' = effect(next, cleared).poller
               /\ timers' = effect(next, cleared).timers
    /\ UNCHANGED <<store, clock, connecting, storeLog, notPoller>>

\* an interval timer fires: the fetch callback runs
TimerFires ==
    /\ timers.active # {}
    /\ poller.fetches < MaxFires + timers.made
    /\ poller' = [poller EXCEPT !.fetches = @ + 1]
    /\ UNCHANGED <<timers, store, clock, connecting, storeLog, notPoller>>

\* the component unmounts: the cleanup of its effect runs
PollerUnmount ==
    /\ poller.mounted
    /\ timers' = cleanup(poller, timers)
    /\ poller' = [poller EXCEPT !.mounted = FALSE, !.cleanup = Null]
    /\ UNCHANGED <<store, clock, connecting, storeLog, notPoller>>

PollerNext ==
    \/ PollerMount \/ SymbolChanges \/ OptionChanges \/ TimerFires \/ PollerUnmount

SpecPoller == PollerInit /\ [][PollerNext]_vars

(***************************************************************************)
(* Properties of the interval timers.                                      *)
(***************************************************************************)
\* C26: at most one interval timer of a polling component is active, none
\* after it unmounted, and no timer was made while an earlier one was active
C26_AtMostOneTimer ==
    /\ Cardinality(timers.active) <= 1
    /\ ~poller.mounted => timers.active = {}
    /\ ~timers.overlapped

\* the fetch callback was created again and again, and the component unmounted
C26_Witness ==
    /\ poller.recreated >= 2
    /\ timers.made >= 3
    /\ ~poller.mounted

====
